---- MODULE Spec2Model ----
(***************************************************************************)
(* Model of the pasteproof detection-and-telemetry pipeline.               *)
(*                                                                         *)
(*   DetectionQueue (background.ts)  : queue, processing, inflight, ...    *)
(*   AI scan state (ai-scan-state.ts): stored, callers, ...                *)
(*                                                                         *)
(* Every asynchronous function is cut at its awaits: one action runs the   *)
(* code from one suspension point to the next, as the JavaScript event     *)
(* loop does.                                                              *)
(***************************************************************************)
EXTENDS Integers, Sequences, FiniteSets, TLC

(***************************************************************************)
(* Bounds of the model.  MAX_QUEUE_SIZE and BATCH_SIZE keep the source's   *)
(* names but are scaled down (the source sets 100 and 10): the queue code  *)
(* only compares lengths with them, so the scaled queue goes through the   *)
(* same cases (overflow, partial batch, several batches per pass).         *)
(***************************************************************************)
MAX_QUEUE_SIZE == 3
BATCH_SIZE == 2
MaxEvents == 6
MaxCalls == 2   \* scan-state transitions called in one behaviour
CACHE_DURATION == 2   \* cache TTL in clock ticks (the source sets 30000 ms)
MaxClock == 5   \* the clock of the cache stops here

VARIABLES
  queue,       \* DetectionQueue.queue: sequence of events, head first
  processing,  \* DetectionQueue.processing
  inflight,    \* batches handed to apiClient.logDetectionsBatch, not yet settled
  apiClient,   \* api-client singleton: TRUE when a client is configured
  added,       \* number of events passed to add so far; event k is the k-th added
  delivered,   \* history: batches the collector accepted, in order of acceptance
  dropped,     \* history: events removed by the overflow truncation of add
  requeued,    \* history: events that were in a batch whose delivery failed
  last         \* history: the latest step of the queue, [act, batch]: the
               \* batch a trigger sent (<<>> if none), or the batch settled

qvars == <<queue, processing, inflight, apiClient, added, delivered, dropped,
           requeued, last>>

VARIABLES
  stored,      \* storage item 'local:aiScanState'; NoRecord when absent
  callers,     \* per caller: the setAiScanState call it is suspended in
  now,         \* Date.now(); the clock advances between any two calls
  calls,       \* number of transitions called so far
  hist,        \* history: the two latest completed transitions
  lastRead     \* history: the latest getAiScanState of an observer, while
               \* no transition has been called or has written since

svars == <<stored, callers, now, calls, hist, lastRead>>

VARIABLES
  listeners,   \* ai-scan-state.ts `listeners`: the subscribed callbacks, in order
  note         \* history: the calls notifyStateChange made in the latest step
               \* of the scan state, and whether an exception left it

lvars == <<listeners, note>>

VARIABLES
  cache,       \* AiScanOptimizer.cache: Map from hashText(text) to its entry
  puts,        \* history: the latest cacheResult call of each text, oldest first
  lastOp       \* history: the latest call on the cache and what it returned

cvars == <<cache, puts, lastOp>>

VARIABLES
  scanText,    \* the text handed to shouldScan
  verdict      \* [done, value]: whether shouldScan has returned, and what

gvars == <<scanText, verdict>>

VARIABLES
  oldText,     \* the texts handed to hasSignificantChange
  newText,
  changed      \* [done, value]: whether hasSignificantChange has returned, and what

hvars == <<oldText, newText, changed>>

VARIABLES
  customPatterns,  \* pii-detector `customPatterns`: the active custom rules
  given,           \* history: the argument of the latest setCustomPatterns
  earlier,         \* history: the names of the rules that were active
                   \* before the latest setCustomPatterns
  lastScan         \* history: the latest detectPii since the latest
                   \* setCustomPatterns, [text, done, scan]

pvars == <<customPatterns, given, earlier, lastScan>>

VARIABLES
  detected,       \* the arguments of calculateRiskLevel: the detections (of
  avgConfidence,  \* which it reads the types) and their average confidence
  riskLevel       \* [done, value]: whether it has returned, and what

rvars == <<detected, avgConfidence, riskLevel>>

VARIABLES
  detector,            \* OnnxPiiDetector.detector: 0 for null, else the number
                       \* of the _initialize call whose pipeline it is
  isInitializing,      \* OnnxPiiDetector.isInitializing
  initPromise,         \* OnnxPiiDetector.initPromise: 0 for null, else the
                       \* number of the _initialize call it is the promise of
  dependenciesLoaded,  \* onnx-client.ts `dependenciesLoaded`
  loads,               \* the _initialize calls so far, each where it stands
  disposed,            \* history: dispose was called and initialize not since
  lastInit             \* history: what the latest initialize call did

ovars == <<detector, isInitializing, initPromise, dependenciesLoaded, loads,
           disposed, lastInit>>

vars == <<qvars, svars, lvars, cvars, gvars, hvars, pvars, rvars, ovars>>

\* what the steps of the queue, of the scan state, of the cache and of the
\* scan gate leave alone
notQueue == <<svars, lvars, cvars, gvars, hvars, pvars, rvars, ovars>>
notScanState == <<qvars, cvars, gvars, hvars, pvars, rvars, ovars>>
notCache ==
  <<qvars, stored, callers, calls, hist, lastRead, lvars, gvars, hvars, pvars, rvars,
    ovars>>
notGate == <<qvars, svars, lvars, cvars, hvars, pvars, rvars, ovars>>
notChange == <<qvars, svars, lvars, cvars, gvars, pvars, rvars, ovars>>
notPattern == <<qvars, svars, lvars, cvars, gvars, hvars, rvars, ovars>>
notRisk == <<qvars, svars, lvars, cvars, gvars, hvars, pvars, ovars>>
notOnnx == <<qvars, svars, lvars, cvars, gvars, hvars, pvars, rvars>>

----------------------------------------------------------------------------
(* Sequence helpers: Array.prototype.slice / splice / unshift.             *)

Min(a, b) == IF a < b THEN a ELSE b

\* q.slice(-n): the last n elements (all of q when it is shorter)
SliceLast(q, n) == IF Len(q) <= n THEN q ELSE SubSeq(q, Len(q) - n + 1, Len(q))

\* the elements q.splice(0, n) returns
SpliceHead(q, n) == SubSeq(q, 1, Min(n, Len(q)))

\* what q.splice(0, n) leaves in q
SpliceRest(q, n) == SubSeq(q, Min(n, Len(q)) + 1, Len(q))

\* q.unshift(...batch)
Unshift(batch, q) == batch \o q

SeqToSet(s) == {s[i] : i \in 1..Len(s)}

RECURSIVE Flatten(_)
Flatten(ss) == IF ss = <<>> THEN <<>> ELSE Head(ss) \o Flatten(Tail(ss))

----------------------------------------------------------------------------
(* DetectionQueue                                                          *)

\* add, before it calls processQueue: push, then truncate to the newest
PushTruncate(q, e) ==
  LET pushed == Append(q, e)
  IN  IF Len(pushed) > MAX_QUEUE_SIZE THEN SliceLast(pushed, MAX_QUEUE_SIZE) ELSE pushed

\* the early return of processQueue
DrainGuard_NoFlag(proc, q) == Len(q) > 0
DrainGuard(proc, q) == ~proc /\ Len(q) > 0

\* the batch one iteration of the while loop takes, and what it leaves
TakeBatch_Copy(q) == [batch |-> SpliceHead(q, BATCH_SIZE), rest |-> q]
TakeBatch_Whole(q) == [batch |-> q, rest |-> <<>>]
TakeBatch(q) == [batch |-> SpliceHead(q, BATCH_SIZE), rest |-> SpliceRest(q, BATCH_SIZE)]

\* the catch block of the loop: the failed batch goes back to the queue
Requeue_Back(batch, q) == q \o batch
Requeue_Lost(batch, q) == q
Requeue(batch, q) == Unshift(batch, q)

\* The while loop from its test to the next await (or to its exit), on queue
\* q with the other calls `others` still in flight.
DrainLoop(q, others) ==
  IF Len(q) > 0
  THEN /\ queue' = TakeBatch(q).rest
       /\ inflight' = others \cup {TakeBatch(q).batch}
       /\ processing' = TRUE
  ELSE /\ queue' = q
       /\ inflight' = others
       /\ processing' = FALSE

\* The catch block after the requeue: `break` leaves the loop and `finally`
\* clears the flag, with the other calls `others` still in flight.
StopPass_Retry(q, others) == DrainLoop(q, others)
StopPass_KeepFlag(q, others) ==
  /\ queue' = q
  /\ inflight' = others
  /\ processing' = TRUE
StopPass(q, others) ==
  /\ queue' = q
  /\ inflight' = others
  /\ processing' = FALSE

\* the batch a step handed to the collector, <<>> if it handed none
Sent(before, after) ==
  IF after \ before = {} THEN <<>> ELSE CHOOSE b \in after \ before : TRUE

\* processQueue from its call to its first await or return, on queue q
ProcessQueue(q) ==
  IF ~DrainGuard(processing, q)
  THEN queue' = q /\ UNCHANGED <<processing, inflight>>
  ELSE IF ~apiClient
       THEN queue' = q /\ UNCHANGED <<processing, inflight>>
       ELSE DrainLoop(q, inflight)

QueueInit ==
  /\ queue = <<>>
  /\ processing = FALSE
  /\ inflight = {}
  /\ apiClient = FALSE
  /\ added = 0
  /\ delivered = <<>>
  /\ dropped = {}
  /\ requeued = {}
  /\ last = [batch |-> <<>>, act |-> "init"]

\* queueDetection / DetectionQueue.add
Add ==
  /\ added < MaxEvents
  /\ added' = added + 1
  /\ dropped' = dropped \cup (SeqToSet(Append(queue, added + 1))
                               \ SeqToSet(PushTruncate(queue, added + 1)))
  /\ ProcessQueue(PushTruncate(queue, added + 1))
  /\ last' = [batch |-> Sent(inflight, inflight'), act |-> "add"]
  /\ UNCHANGED <<apiClient, delivered, requeued>>
  /\ UNCHANGED notQueue

\* DetectionQueue.flush: the 30 s timer and chrome.runtime.onSuspend
Flush ==
  /\ ProcessQueue(queue)
  /\ last' = [batch |-> Sent(inflight, inflight'), act |-> "flush"]
  /\ UNCHANGED <<apiClient, added, delivered, dropped, requeued>>
  /\ UNCHANGED notQueue

\* await apiClient.logDetectionsBatch(batch) resolves: the loop goes on
DeliverOk ==
  \E b \in inflight :
    /\ delivered' = Append(delivered, b)
    /\ DrainLoop(queue, inflight \ {b})
    /\ last' = [batch |-> b, act |-> "ok"]
    /\ UNCHANGED <<apiClient, added, dropped, requeued>>
    /\ UNCHANGED notQueue

\* await apiClient.logDetectionsBatch(batch) rejects: requeue, break, finally
DeliverFail ==
  \E b \in inflight :
    /\ StopPass(Requeue(b, queue), inflight \ {b})
    /\ requeued' = requeued \cup SeqToSet(b)
    /\ last' = [batch |-> b, act |-> "fail"]
    /\ UNCHANGED <<apiClient, added, delivered, dropped>>
    /\ UNCHANGED notQueue

initializeApiClient ==
  /\ ~apiClient
  /\ apiClient' = TRUE
  /\ UNCHANGED <<queue, processing, inflight, added, delivered, dropped, requeued, last>>
  /\ UNCHANGED notQueue

clearApiClient ==
  /\ apiClient
  /\ apiClient' = FALSE
  /\ UNCHANGED <<queue, processing, inflight, added, delivered, dropped, requeued, last>>
  /\ UNCHANGED notQueue

QueueNext ==
  \/ Add
  \/ Flush
  \/ DeliverOk
  \/ DeliverFail
  \/ initializeApiClient
  \/ clearApiClient

----------------------------------------------------------------------------
(* AI scan state (ai-scan-state.ts)                                        *)
(*                                                                         *)
(* An AiScanState, and a Partial<AiScanState>, is a function from the keys *)
(* it holds to their values.  A key may hold `undefined` (startAiScan      *)
(* passes error: undefined); storage serialises the record, which drops    *)
(* such keys, so in a stored record a key is present iff it is defined.    *)

Undefined == "undefined"

NoRecord == [k \in {} |-> 0]

Callers == {"c1", "c2"}
StartArgs == {<<Undefined, Undefined>>, <<"d1", "t1">>}
ErrorTexts == {"x"}
Counts == {1}

StringKeys == {"status", "error", "currentDomain", "textPreview"}

\* the default of getAiScanState
DefaultState == [status |-> "idle", detectionCount |-> 0]

\* { ...a, ...b }
Spread(a, b) ==
  [k \in DOMAIN a \cup DOMAIN b |-> IF k \in DOMAIN b THEN b[k] ELSE a[k]]

\* the keys of r that hold a value other than undefined
DefinedKeys(r) == {k \in DOMAIN r : ~(k \in StringKeys /\ r[k] = Undefined)}

\* the record storage.setItem leaves in the store
Serialize(r) == [k \in DefinedKeys(r) |-> r[k]]

\* a getAiScanState without the `|| default`: it returns what storage holds
GetAiScanState_NoDefault(item, readOk) ==
  IF readOk THEN item ELSE DefaultState

\* getAiScanState: the stored record, the default when there is none or
\* when storage.getItem throws
GetAiScanState(item, readOk) ==
  IF readOk /\ item # NoRecord THEN item ELSE DefaultState

\* the argument each transition passes to setAiScanState
StartPartial_KeepError(domain, textPreview) ==
  [status |-> "scanning", textPreview |-> textPreview,
   currentDomain |-> domain]
StartPartial_NoPreview(domain, textPreview) ==
  [status |-> "scanning", currentDomain |-> domain, error |-> Undefined]
StartPartial(domain, textPreview) ==
  [status |-> "scanning", textPreview |-> textPreview,
   currentDomain |-> domain, error |-> Undefined]

CompletePartial_NoTime(detectionCount, t) ==
  [status |-> "success", detectionCount |-> detectionCount, error |-> Undefined]
CompletePartial(detectionCount, t) ==
  [status |-> "success", detectionCount |-> detectionCount,
   error |-> Undefined, lastScanTime |-> t]

FailPartial_ZeroCount(error, t) ==
  [status |-> "error", detectionCount |-> 0, error |-> error,
   lastScanTime |-> t]
FailPartial(error, t) ==
  [status |-> "error", error |-> error, lastScanTime |-> t]

ResetPartial_KeepCount == [status |-> "idle", error |-> Undefined]
ResetPartial == [status |-> "idle", detectionCount |-> 0, error |-> Undefined]

Idle ==
  [pc |-> "idle", op |-> "none", args |-> <<>>, at |-> 0, partial |-> NoRecord,
   pre |-> NoRecord, next |-> NoRecord, rdOk |-> TRUE, mates |-> 0]

Active(c) == callers[c].pc # "idle"

Bump(n) == IF n < 2 THEN n + 1 ELSE 2

\* the history keeps the two latest entries
Remember(h, e) == IF Len(h) < 2 THEN Append(h, e) ELSE Append(Tail(h), e)

NoRead == [fresh |-> FALSE, ok |-> TRUE, result |-> NoRecord]

\* callers are interchangeable: a call takes the first one that is free
FirstFree(c) == \A d \in Callers : (~Active(d)) => (c = "c1" \/ d # "c1")

\* Records an earlier session can have left in storage: none, and what
\* reset, complete, start after complete, and fail after start leave.
PriorRecords ==
  { NoRecord,
    [status |-> "idle", detectionCount |-> 0],
    [status |-> "success", detectionCount |-> 2, lastScanTime |-> 0],
    [status |-> "scanning", detectionCount |-> 2, textPreview |-> "t0",
     currentDomain |-> "d0", lastScanTime |-> 0],
    [status |-> "error", detectionCount |-> 1, textPreview |-> "t0",
     currentDomain |-> "d0", error |-> "w", lastScanTime |-> 0] }

\* the listeners a page may subscribe
Listeners == {"l1", "l2"}

NoNote == [calls |-> <<>>, escaped |-> FALSE]

\* setAiScanState reaches notifyStateChange only when the awaited
\* storage.setItem did not throw
Notifies_BeforeWrite(writeOk) == TRUE
Notifies(writeOk) == writeOk

\* a notifyStateChange without the try/catch around the callback: the first
\* exception ends the forEach
NotifyStateChange_Uncaught(ls, throwers, state) ==
  LET n == IF \E i \in 1..Len(ls) : ls[i] \in throwers
           THEN CHOOSE i \in 1..Len(ls) :
                  /\ ls[i] \in throwers
                  /\ \A j \in 1..(i - 1) : ls[j] \notin throwers
           ELSE Len(ls)
  IN [calls |-> [i \in 1..n |-> [state |-> state, listener |-> ls[i],
                                 threw |-> ls[i] \in throwers]],
      escaped |-> \E i \in 1..Len(ls) : ls[i] \in throwers]

\* notifyStateChange(state): listeners.forEach calls every callback with state,
\* each inside its own try/catch; throwers are the callbacks that throw
NotifyStateChange(ls, throwers, state) ==
  [calls |-> [i \in 1..Len(ls) |-> [state |-> state, listener |-> ls[i],
                                    threw |-> ls[i] \in throwers]],
   escaped |-> FALSE]

ScanInit ==
  /\ stored \in PriorRecords
  /\ callers = [c \in Callers |-> Idle]
  /\ now = 1
  /\ calls = 0
  /\ hist = <<>>
  /\ lastRead = NoRead
  /\ listeners = <<>>
  /\ note = NoNote

----------------------------------------------------------------------------
(* AiScanOptimizer (ai-scan-optimizer.ts): the result cache.  A text is    *)
(* the sequence of its UTF-16 code units.  hashText works on 32-bit        *)
(* integers; a 32-bit pattern is kept as its two 16-bit halves <<hi, lo>>.  *)

Half == 65536

\* x + y on 32-bit patterns
Add32(x, y) ==
  LET lo == x[2] + y[2]
      hi == x[1] + y[1] + (lo \div Half)
  IN <<hi % Half, lo % Half>>

\* x - y on 32-bit patterns
Sub32(x, y) ==
  LET lo == x[2] - y[2]
      hi == x[1] - y[1] + (lo \div Half)
  IN <<hi % Half, lo % Half>>

\* x << 5
Shl5(x) ==
  LET lo == x[2] * 32
      hi == x[1] * 32 + (lo \div Half)
  IN <<hi % Half, lo % Half>>

\* the loop of hashText from character i on:
\*   hash = (hash << 5) - hash + char; hash = hash & hash
RECURSIVE HashFrom(_, _, _)
HashFrom(text, i, hash) ==
  IF i > Len(text) THEN hash
  ELSE HashFrom(text, i + 1, Add32(Sub32(Shl5(hash), hash), <<0, text[i]>>))

\* the base-36 digits of the unsigned value x, most significant first
RECURSIVE Digits36(_)
Digits36(x) ==
  LET t == (x[1] % 36) * Half + x[2]
      q == <<x[1] \div 36, t \div 36>>
  IN IF q = <<0, 0>> THEN <<t % 36>> ELSE Append(Digits36(q), t % 36)

\* Number.prototype.toString(36) of the signed 32-bit integer with pattern x
ToString36(x) ==
  IF x[1] >= Half \div 2
  THEN [neg |-> TRUE, digits |-> Digits36(Sub32(<<0, 0>>, x))]
  ELSE [neg |-> FALSE, digits |-> Digits36(x)]

\* "Aa" and "BB" have the same hash; the third text overflows 32 bits
Texts == { <<65, 97>>, <<66, 66>>, <<122, 122, 122, 122, 122, 122, 122, 122>> }

\* the detection lists cached
MatchLists == { <<>>, <<"m1">> }

\* hashText of each text of the model, computed once
HashTable == [text \in Texts |-> ToString36(HashFrom(text, 1, <<0, 0>>))]

\* hashText(text)
HashText(text) == HashTable[text]

EmptyMap == [k \in {} |-> 0]

\* Map.prototype.set: one that keeps an entry already under the key
CacheSet_KeepOld(m, hash, entry) ==
  [k \in DOMAIN m \cup {hash} |-> IF k \in DOMAIN m THEN m[k] ELSE entry]

\* Map.prototype.set
CacheSet(m, hash, entry) ==
  [k \in DOMAIN m \cup {hash} |-> IF k = hash THEN entry ELSE m[k]]

\* Map.prototype.delete
CacheDelete(m, hash) == [k \in DOMAIN m \ {hash} |-> m[k]]

\* a cleanCache that sweeps nothing
CleanCache_Skip(m, t) == m

\* cleanCache at time t
CleanCache(m, t) ==
  [k \in {h \in DOMAIN m : ~(t - m[h].timestamp > CACHE_DURATION)} |-> m[k]]

\* validity tests that treat every entry as expired / no entry as expired
Stale_AtOnce(entry, t) == t - entry.timestamp >= 0
Stale_Never(entry, t) == FALSE

\* getCachedResult's validity test of the entry found
Stale(entry, t) == t - entry.timestamp > CACHE_DURATION

\* the null of getCachedResult, and a list it returns
Absent == [found |-> FALSE, detections |-> <<>>]
Found(detections) == [found |-> TRUE, detections |-> detections]

\* getCachedResult(text) at time t: what it returns and the cache it leaves
GetCachedResult(m, text, t) ==
  LET hash == HashText(text)
  IN IF hash \notin DOMAIN m
     THEN [cache |-> m, result |-> Absent]
     ELSE IF Stale(m[hash], t)
          THEN [cache |-> CacheDelete(m, hash), result |-> Absent]
          ELSE [cache |-> m, result |-> Found(m[hash].detections)]

\* cacheResult(text, detections) at time t: the cache it leaves
CacheResult(m, text, detections, t) ==
  LET hash == HashText(text)
  IN CleanCache(CacheSet(m, hash, [hash |-> hash, timestamp |-> t,
                                   detections |-> detections]), t)

NoOp == [before |-> EmptyMap, op |-> "none", at |-> 0, result |-> Absent,
         text |-> <<>>, detections |-> <<>>]

\* the history of cacheResult calls after one more: one record per text
RememberPut(h, text, detections) ==
  LET keep == {i \in 1..Len(h) : h[i].text # text}
      F[i \in 0..Len(h)] ==
        IF i = 0 THEN <<>>
        ELSE IF i \in keep THEN Append(F[i - 1], h[i]) ELSE F[i - 1]
  IN Append(F[Len(h)], [text |-> text, detections |-> detections])

CacheInit ==
  /\ cache = EmptyMap
  /\ puts = <<>>
  /\ lastOp = NoOp

cacheResult ==
  /\ \E text \in Texts, detections \in MatchLists :
       /\ cache' = CacheResult(cache, text, detections, now)
       /\ puts' = RememberPut(puts, text, detections)
       /\ lastOp' = [before |-> cache, op |-> "cacheResult", at |-> now,
                     result |-> Absent, text |-> text,
                     detections |-> detections]
  /\ UNCHANGED now
  /\ UNCHANGED notCache

getCachedResult ==
  /\ \E text \in Texts :
       LET r == GetCachedResult(cache, text, now)
       IN /\ cache' = r.cache
          /\ lastOp' = [before |-> cache, op |-> "getCachedResult",
                        at |-> now, result |-> r.result, text |-> text,
                        detections |-> <<>>]
  /\ UNCHANGED <<puts, now>>
  /\ UNCHANGED notCache

clearCache ==
  /\ cache' = EmptyMap
  /\ lastOp' = [before |-> cache, op |-> "clearCache", at |-> now,
                result |-> Absent, text |-> <<>>, detections |-> <<>>]
  /\ UNCHANGED <<puts, now>>
  /\ UNCHANGED notCache

\* time passes between two calls on the cache
Tick ==
  /\ now < MaxClock
  /\ now' = now + 1
  /\ UNCHANGED cvars
  /\ UNCHANGED notCache

CacheNext ==
  \/ cacheResult
  \/ getCachedResult
  \/ clearCache
  \/ Tick

----------------------------------------------------------------------------
(* AiScanOptimizer.shouldScan.  Lengths are String.prototype.length, that  *)
(* is UTF-16 code units; new Set(text) iterates the text by code points.   *)

MIN_TEXT_LENGTH == 10
MAX_TEXT_LENGTH == 5000

\* the code units String.prototype.trim removes: WhiteSpace and LineTerminator
IsSpace(c) ==
  \/ c \in {9, 10, 11, 12, 13, 32, 160, 5760, 8232, 8233, 8239, 8287, 12288, 65279}
  \/ c \in 8192..8202

\* first index from i upward, last index from j downward, that is not a space
RECURSIVE TrimStart(_, _)
TrimStart(text, i) ==
  IF i <= Len(text) /\ IsSpace(text[i]) THEN TrimStart(text, i + 1) ELSE i

RECURSIVE TrimEnd(_, _)
TrimEnd(text, j) ==
  IF j >= 1 /\ IsSpace(text[j]) THEN TrimEnd(text, j - 1) ELSE j

\* text.trim()
Trim(text) == SubSeq(text, TrimStart(text, 1), TrimEnd(text, Len(text)))

IsHighSurrogate(c) == c \in 55296..56319
IsLowSurrogate(c) == c \in 56320..57343

\* new Set(text): the string iterator yields code points, a surrogate pair
\* as one element
CodePoints(text) ==
  LET second(i) == i > 1 /\ IsLowSurrogate(text[i]) /\ IsHighSurrogate(text[i - 1])
      paired(i) == /\ IsHighSurrogate(text[i])
                   /\ i < Len(text) /\ IsLowSurrogate(text[i + 1])
  IN { IF paired(i) THEN <<text[i], text[i + 1]>> ELSE <<text[i]>> :
         i \in {j \in 1..Len(text) : ~second(j)} }

\* a shouldScan whose length test also rejects a text of the minimum length
ShouldScan_Inclusive(text) ==
  IF Len(text) <= MIN_TEXT_LENGTH \/ Len(text) > MAX_TEXT_LENGTH THEN FALSE
  ELSE IF Len(Trim(text)) < MIN_TEXT_LENGTH THEN FALSE
  ELSE IF Cardinality(CodePoints(text)) < 5 /\ Len(text) > 20 THEN FALSE
  ELSE TRUE

\* shouldScan(text)
ShouldScan(text) ==
  IF Len(text) < MIN_TEXT_LENGTH \/ Len(text) > MAX_TEXT_LENGTH THEN FALSE
  ELSE IF Len(Trim(text)) < MIN_TEXT_LENGTH THEN FALSE
  ELSE IF Cardinality(CodePoints(text)) < 5 /\ Len(text) > 20 THEN FALSE
  ELSE TRUE

\* a text: lead spaces, then n code units cycling through the first k
\* letters of the alphabet, then trail spaces
Build(lead, k, n, trail) ==
  [i \in 1..(lead + n + trail) |->
     IF i <= lead \/ i > lead + n THEN 32 ELSE 97 + ((i - lead - 1) % k)]

\* eleven copies of one emoji: 22 code units, one code point
Emoji == [i \in 1..22 |-> IF i % 2 = 1 THEN 55357 ELSE 56832]

\* the texts shouldScan is called with
ScanInputs ==
  { Build(lead, k, n, trail) :
      lead \in {0, 1, 2}, k \in {1, 4, 5},
      n \in {0, 1, 5, 9, 10, 11, 19, 20, 21, 22, 4996, 4999, 5000, 5001},
      trail \in {0, 1, 2} }
  \cup {Emoji}

Pending == [done |-> FALSE, value |-> FALSE]

\* no text has been handed to the gate
GateInit ==
  /\ scanText = <<>>
  /\ verdict = Pending

\* shouldScan(scanText) returns
shouldScan ==
  /\ ~verdict.done
  /\ verdict' = [done |-> TRUE, value |-> ShouldScan(scanText)]
  /\ UNCHANGED scanText
  /\ UNCHANGED notGate

GateNext == shouldScan

----------------------------------------------------------------------------
(* AiScanOptimizer: hasSignificantChange                                   *)
(*                                                                         *)
(* A similarity is a JavaScript number in the source.  Here it is the      *)
(* fraction <<numerator, denominator>> it is computed from; the comparison *)
(* with SIMILARITY_THRESHOLD = 0.85 = 85/100 is done by cross              *)
(* multiplication.  For lengths up to MAX_TEXT_LENGTH the double           *)
(* 1 - distance/maxLen compares with the double 0.85 as the fractions do:  *)
(* a fraction other than 85/100 is further from it than the rounding       *)
(* error, and 1 - 3/20 rounds to the double 0.85 itself.                   *)

SIMILARITY_THRESHOLD == <<85, 100>>

Min3(a, b, c) == Min(a, Min(b, c))

\* The body of the inner loop: matrix[i][j], from the cells of row i already
\* filled (row holds matrix[i][0 .. j - 1]) and from prev = matrix[i - 1].
Cell_NoSubstitute(str1, str2, prev, i, row, j) ==
  IF str1[i] = str2[j]
  THEN prev[j]
  ELSE Min3(prev[j] + 2, row[j] + 1, prev[j + 1] + 1)
Cell(str1, str2, prev, i, row, j) ==
  IF str1[i] = str2[j]
  THEN prev[j]
  ELSE Min3(prev[j] + 1, row[j] + 1, prev[j + 1] + 1)

\* The inner loop for j = lo .. hi, in this order.  The range is split in
\* halves, the first half complete before the second is begun, so that the
\* evaluation nests as deep as the logarithm of the length.
RECURSIVE FillRow(_, _, _, _, _, _, _)
FillRow(str1, str2, prev, i, row, lo, hi) ==
  IF lo > hi THEN row
  ELSE IF lo = hi THEN Append(row, Cell(str1, str2, prev, i, row, lo))
  ELSE LET mid == (lo + hi) \div 2
           left == FillRow(str1, str2, prev, i, row, lo, mid)
       IN  IF Len(left) = mid + 1
           THEN FillRow(str1, str2, prev, i, left, mid + 1, hi)
           ELSE <<>>

\* The outer loop for i = lo .. hi, in this order; prev is matrix[lo - 1] and
\* the result is matrix[hi].  Only the latest row of the matrix is kept: the
\* loop reads no older one.
RECURSIVE FillFrom(_, _, _, _, _)
FillFrom(str1, str2, prev, lo, hi) ==
  IF lo > hi THEN prev
  ELSE IF lo = hi THEN FillRow(str1, str2, prev, lo, <<lo>>, 1, Len(str2))
  ELSE LET mid == (lo + hi) \div 2
           upper == FillFrom(str1, str2, prev, lo, mid)
       IN  IF Len(upper) = Len(prev)
           THEN FillFrom(str1, str2, upper, mid + 1, hi)
           ELSE <<>>

\* levenshteinDistance(str1, str2): matrix[len1][len2]
LevenshteinDistance(str1, str2) ==
  FillFrom(str1, str2, [j \in 1..(Len(str2) + 1) |-> j - 1], 1, Len(str1))
    [Len(str2) + 1]

Max(a, b) == IF a > b THEN a ELSE b

\* calculateSimilarity(text1, text2)
CalculateSimilarity(text1, text2) ==
  LET maxLen == Max(Len(text1), Len(text2))
  IN  IF maxLen = 0 THEN <<1, 1>>
      ELSE <<maxLen - LevenshteinDistance(text1, text2), maxLen>>

\* x < y for fractions with positive denominators
Below(x, y) == x[1] * y[2] < y[1] * x[2]

Abs_Signed(n) == n
Abs(n) == IF n < 0 THEN 0 - n ELSE n

\* a hasSignificantChange for which a length difference of 20 is significant
HasSignificantChange_Inclusive(old, new) ==
  IF Abs(Len(old) - Len(new)) >= 20 THEN TRUE
  ELSE IF Below(CalculateSimilarity(old, new), SIMILARITY_THRESHOLD) THEN TRUE
  ELSE FALSE

\* hasSignificantChange(oldText, newText)
HasSignificantChange(old, new) ==
  IF Abs(Len(old) - Len(new)) > 20 THEN TRUE
  ELSE IF Below(CalculateSimilarity(old, new), SIMILARITY_THRESHOLD) THEN TRUE
  ELSE FALSE

\* n times the letter a
Plain(n) == [i \in 1..n |-> 97]

\* Plain(n) after an edit: its last k letters replaced by X, m times X appended
Edited(n, k, m) == [i \in 1..(n + m) |-> IF i <= n - k THEN 97 ELSE 88]

\* the strings over {a, b} of length up to 3
ShortTexts == UNION {[1..n -> {97, 98}] : n \in 0..3}

HelloWorld == <<104, 101, 108, 108, 111, 32, 119, 111, 114, 108, 100>>
Hello == SubSeq(HelloWorld, 1, 5)
GoodbyeUniverse ==
  <<103, 111, 111, 100, 98, 121, 101, 32, 117, 110, 105, 118, 101, 114, 115, 101>>

\* the edits hasSignificantChange is asked about, in both directions
ChangeInputs ==
  LET edits == {<<Plain(e[1]), Edited(e[1], e[2], e[3])>> :
                   e \in {<<20, 2, 0>>, <<20, 3, 0>>, <<20, 4, 0>>, <<40, 6, 0>>,
                          <<40, 5, 2>>, <<17, 0, 3>>, <<16, 0, 3>>,
                          <<114, 0, 20>>, <<113, 0, 20>>, <<150, 0, 21>>,
                          <<150, 2, 19>>, <<0, 0, 1>>, <<0, 0, 21>>}}
               \cup {<<HelloWorld, Append(HelloWorld, 33)>>,
                     <<Hello, GoodbyeUniverse>>}
  IN  (ShortTexts \X ShortTexts) \cup edits \cup {<<e[2], e[1]>> : e \in edits}

\* what hasSignificantChange returns for each of these edits: it is a
\* function of its two arguments, computed here once per edit
ChangeTable == [e \in ChangeInputs |-> HasSignificantChange(e[1], e[2])]

\* no text has been handed to hasSignificantChange
ChangeInit ==
  /\ oldText = <<>>
  /\ newText = <<>>
  /\ changed = Pending

\* hasSignificantChange(oldText, newText) returns
hasSignificantChange ==
  /\ ~changed.done
  /\ changed' = [done |-> TRUE, value |-> ChangeTable[<<oldText, newText>>]]
  /\ UNCHANGED <<oldText, newText>>
  /\ UNCHANGED notChange

ChangeNext == hasSignificantChange

----------------------------------------------------------------------------
(* Pattern matcher (pii-detector): detectPii, setCustomPatterns            *)
(*                                                                         *)
(* A regular expression is the syntax tree of its source.  Ends lists the  *)
(* positions at which a match of a node beginning at position i can end,   *)
(* in the order in which a backtracking matcher tries them (greedy         *)
(* quantifiers: the longer alternative first), so that the head of the     *)
(* list is the match RegExp reports.  Positions are 1-based; a match's     *)
(* `index` is 0-based as in JavaScript.                                    *)

DigitChars == 48..57
UpperChars == 65..90
LowerChars == 97..122
WordChars == DigitChars \cup UpperChars \cup LowerChars \cup {95}
SpaceChars ==
  {9, 10, 11, 12, 13, 32, 160, 5760, 8232, 8233, 8239, 8287, 12288, 65279}
    \cup 8192..8202

\* the i flag: a letter matches in either case
CaseFold(S) ==
  S \cup {c + 32 : c \in S \cap UpperChars} \cup {c - 32 : c \in S \cap LowerChars}

Class(S) == <<"set", S>>
Lit(c) == <<"set", {c}>>
Concat(nodes) == <<"seq", nodes>>
Optional(node) == <<"opt", node>>
Either(nodes) == <<"alt", nodes>>
Times(node, lo, hi) == <<"rep", node, lo, hi, TRUE>>
AtLeast(node, lo) == <<"rep", node, lo, lo, FALSE>>
WordBoundary == <<"wb">>
\* a word, letter by letter, under the i flag
Letters(word) == <<"seq", [i \in 1..Len(word) |-> Class(CaseFold({word[i]}))]>>

IsWordAt(text, i) == i >= 1 /\ i <= Len(text) /\ text[i] \in WordChars

RECURSIVE Ends(_, _, _)
RECURSIVE EndsEach(_, _, _, _)
RECURSIVE EndsSeq(_, _, _, _)
RECURSIVE EndsAlt(_, _, _, _)
RECURSIVE EndsRep(_, _, _, _)
RECURSIVE EndsRepEach(_, _, _, _, _)

\* the ends of node from each of the positions starts[k..], in order
EndsEach(node, text, starts, k) ==
  IF k > Len(starts) THEN <<>>
  ELSE Ends(node, text, starts[k]) \o EndsEach(node, text, starts, k + 1)

\* nodes[k..] one after the other, from the positions `starts`
EndsSeq(nodes, k, text, starts) ==
  IF k > Len(nodes) THEN starts
  ELSE EndsSeq(nodes, k + 1, text, EndsEach(nodes[k], text, starts, 1))

\* nodes[k..] as alternatives, the leftmost first
EndsAlt(nodes, k, text, i) ==
  IF k > Len(nodes) THEN <<>>
  ELSE Ends(nodes[k], text, i) \o EndsAlt(nodes, k + 1, text, i)

\* a greedy quantifier after `count` repetitions: one more if allowed, then
\* stopping here if enough
EndsRep(node, text, i, count) ==
  LET further(e) == e > i
      more == IF ~node[5] \/ count < node[4]
              THEN SelectSeq(Ends(node[2], text, i), further)
              ELSE <<>>
  IN  EndsRepEach(node, text, more, 1, count + 1)
        \o (IF count >= node[3] THEN <<i>> ELSE <<>>)

EndsRepEach(node, text, starts, k, count) ==
  IF k > Len(starts) THEN <<>>
  ELSE EndsRep(node, text, starts[k], count)
         \o EndsRepEach(node, text, starts, k + 1, count)

Ends(node, text, i) ==
  CASE node[1] = "set" ->
         IF i <= Len(text) /\ text[i] \in node[2] THEN <<i + 1>> ELSE <<>>
    [] node[1] = "wb" ->
         IF IsWordAt(text, i - 1) # IsWordAt(text, i) THEN <<i>> ELSE <<>>
    [] node[1] = "seq" -> EndsSeq(node[2], 1, text, <<i>>)
    [] node[1] = "opt" -> Ends(node[2], text, i) \o <<i>>
    [] node[1] = "alt" -> EndsAlt(node[2], 1, text, i)
    [] node[1] = "rep" -> EndsRep(node, text, i, 0)

\* text.matchAll(regex) from position pos on: the leftmost match, then the
\* matches after its end (after the next position when it is empty)
RECURSIVE MatchFrom(_, _, _)
MatchFrom(regex, text, pos) ==
  IF pos > Len(text) + 1 THEN <<>>
  ELSE LET ends == Ends(regex, text, pos)
       IN  IF ends = <<>> THEN MatchFrom(regex, text, pos + 1)
           ELSE <<[value |-> SubSeq(text, pos, ends[1] - 1),
                   index |-> pos - 1]>>
                  \o MatchFrom(regex, text,
                               IF ends[1] = pos THEN pos + 1 ELSE ends[1])

MatchAll(regex, text) == MatchFrom(regex, text, 1)

\* the sources of the regular expressions of BUILT_IN_PATTERNS
CreditCardSource == "\\b\\d{4}[\\s-]?\\d{4}[\\s-]?\\d{4}[\\s-]?\\d{4}\\b"
SsnSource == "\\b\\d{3}-\\d{2}-\\d{4}\\b"
EmailSource == "\\b[A-Za-z0-9._%+-]+@[A-Za-z0-9.-]+\\.[A-Z|a-z]{2,}\\b"
PhoneSource == "\\b(\\+\\d{1,3}[\\s-]?)?\\(?\\d{3}\\)?[\\s.-]?\\d{3}[\\s.-]?\\d{4}\\b"
ApiKeySource == "\\b(?:api[_-]?key|token|secret)[_-]?[:\\s]*['\"]*([a-zA-Z0-9_\\-]{20,})['\"]*\\b"
IpAddressSource == "\\b(?:\\d{1,3}\\.){3}\\d{1,3}\\b"

\* the expressions of the custom rules of the catalog
EmployeeSource == "EMP-\\d{6}"
SsnLikeSource == "\\d{3}-\\d{2}-\\d{4}"
BlankSource == "\\s+"
BrokenSource == "("

Sources ==
  {CreditCardSource, SsnSource, EmailSource, PhoneSource, ApiKeySource,
   IpAddressSource, EmployeeSource, SsnLikeSource, BlankSource, BrokenSource}

SyntaxError == <<"SyntaxError">>

Digit == Class(DigitChars)
Separator == Optional(Class(SpaceChars \cup {45}))
PhoneSeparator == Optional(Class(SpaceChars \cup {46, 45}))
Quotes == AtLeast(Class({39, 34}), 0)

\* new RegExp(source, flags) and the regular-expression literals: the
\* syntax tree of each source, or the SyntaxError the constructor throws
Compile(source) ==
  CASE source = CreditCardSource ->
         Concat(<<WordBoundary, Times(Digit, 4, 4), Separator,
                  Times(Digit, 4, 4), Separator, Times(Digit, 4, 4), Separator,
                  Times(Digit, 4, 4), WordBoundary>>)
    [] source = SsnSource ->
         Concat(<<WordBoundary, Times(Digit, 3, 3), Lit(45), Times(Digit, 2, 2),
                  Lit(45), Times(Digit, 4, 4), WordBoundary>>)
    [] source = EmailSource ->
         Concat(<<WordBoundary,
                  AtLeast(Class(UpperChars \cup LowerChars \cup DigitChars
                                  \cup {46, 95, 37, 43, 45}), 1),
                  Lit(64),
                  AtLeast(Class(UpperChars \cup LowerChars \cup DigitChars
                                  \cup {46, 45}), 1),
                  Lit(46),
                  AtLeast(Class(UpperChars \cup LowerChars \cup {124}), 2),
                  WordBoundary>>)
    [] source = PhoneSource ->
         Concat(<<WordBoundary,
                  Optional(Concat(<<Lit(43), Times(Digit, 1, 3), Separator>>)),
                  Optional(Lit(40)), Times(Digit, 3, 3), Optional(Lit(41)),
                  PhoneSeparator, Times(Digit, 3, 3), PhoneSeparator,
                  Times(Digit, 4, 4), WordBoundary>>)
    [] source = ApiKeySource ->
         Concat(<<WordBoundary,
                  Either(<<Concat(<<Letters(<<97, 112, 105>>),
                                    Optional(Class({95, 45})),
                                    Letters(<<107, 101, 121>>)>>),
                           Letters(<<116, 111, 107, 101, 110>>),
                           Letters(<<115, 101, 99, 114, 101, 116>>)>>),
                  Optional(Class({95, 45})),
                  AtLeast(Class({58} \cup SpaceChars), 0),
                  Quotes,
                  AtLeast(Class(UpperChars \cup LowerChars \cup DigitChars
                                  \cup {95, 45}), 20),
                  Quotes, WordBoundary>>)
    [] source = IpAddressSource ->
         Concat(<<WordBoundary,
                  Times(Concat(<<Times(Digit, 1, 3), Lit(46)>>), 3, 3),
                  Times(Digit, 1, 3), WordBoundary>>)
    [] source = EmployeeSource ->
         Concat(<<Letters(<<69, 77, 80>>), Lit(45), Times(Digit, 6, 6)>>)
    [] source = SsnLikeSource ->
         Concat(<<Times(Digit, 3, 3), Lit(45), Times(Digit, 2, 2), Lit(45),
                  Times(Digit, 4, 4)>>)
    [] source = BlankSource -> AtLeast(Class(SpaceChars), 1)
    [] source = BrokenSource -> SyntaxError

\* luhnCheck: the loop from the last digit to the first
RECURSIVE LuhnLoop(_, _, _, _)
LuhnLoop(digits, i, isEven, sum) ==
  IF i < 1 THEN sum
  ELSE LET digit == digits[i] - 48
           doubled == IF digit * 2 > 9 THEN digit * 2 - 9 ELSE digit * 2
       IN  LuhnLoop(digits, i - 1, ~isEven,
                    sum + (IF isEven THEN doubled ELSE digit))

\* luhnCheck(cardNumber)
LuhnCheck(cardNumber) ==
  LET isDigit(c) == c \in DigitChars
      digits == SelectSeq(cardNumber, isDigit)
  IN  IF Len(digits) < 13 \/ Len(digits) > 19 THEN FALSE
      ELSE LuhnLoop(digits, Len(digits), FALSE, 0) % 10 = 0

BUILT_IN_PATTERNS ==
  << [regex |-> CreditCardSource, type |-> "CREDIT_CARD",
      validate |-> "luhnCheck"],
     [regex |-> SsnSource, type |-> "SSN", validate |-> Undefined],
     [regex |-> EmailSource, type |-> "EMAIL", validate |-> Undefined],
     [regex |-> PhoneSource, type |-> "PHONE", validate |-> Undefined],
     [regex |-> ApiKeySource, type |-> "API_KEY", validate |-> Undefined],
     [regex |-> IpAddressSource, type |-> "IP_ADDRESS",
      validate |-> Undefined] >>

\* a validator that is never consulted
Validate_Skip(validate, value) == TRUE

\* pattern.validate(value)
Validate(validate, value) ==
  IF validate = "luhnCheck" THEN LuhnCheck(value) ELSE TRUE

\* The texts detectPii is called with.
\* 411111111111111d: of the ten, only d = 1 passes the Luhn checksum
Card(d) == [i \in 1..16 |-> IF i = 1 THEN 52 ELSE IF i = 16 THEN 48 + d ELSE 49]

\* a card number in groups of four, separated by sep
Grouped(card, sep) ==
  [i \in 1..19 |-> IF i % 5 = 0 THEN sep ELSE card[i - (i \div 5)]]

\* 123-45-6789
SsnText == <<49, 50, 51, 45, 52, 53, 45, 54, 55, 56, 57>>
\* EMP-123456 and emp-123456
EmployeeText == <<69, 77, 80, 45, 49, 50, 51, 52, 53, 54>>
EmployeeLower == <<101, 109, 112, 45, 49, 50, 51, 52, 53, 54>>

DetectInputs ==
  {Card(d) : d \in 0..9}
    \cup {Grouped(Card(d), sep) : d \in {1, 2}, sep \in {32, 45}}
    \cup { <<>>,
           <<32>>,
           <<9, 32, 10>>,
           <<120, 32>> \o Card(1),
           <<120, 32>> \o Card(7),
           Card(1) \o <<32>> \o Card(1),
           SsnText,
           SsnText \o <<32>> \o SsnText,
           <<32>> \o SsnText \o <<32, 32>> \o SsnText,
           EmployeeText,
           EmployeeLower \o <<32>> \o EmployeeText,
           EmployeeText \o <<32>> \o SsnText \o <<32>> \o Grouped(Card(1), 32),
           <<97, 64, 98, 46, 99, 111>>,
           <<53, 53, 53, 45, 49, 50, 51, 45, 52, 53, 54, 55>> }

\* text.matchAll of every expression on every text: a function of the two,
\* computed once for each pair
MatchAllTable ==
  [source \in Sources \ {BrokenSource}, text \in DetectInputs |->
     MatchAll(Compile(source), text)]

\* the match object's index and the offset after the match; an index of 0
\* is falsy, and the code then sets no end
EndOffset(match) ==
  IF match.index # 0 THEN match.index + Len(match.value) ELSE Undefined

\* the results one built-in pattern pushes
BuiltInResults(pattern, text) ==
  LET valid(match) ==
        ~(pattern.validate # Undefined /\ ~Validate(pattern.validate, match.value))
      matches == SelectSeq(MatchAllTable[pattern.regex, text], valid)
  IN  [k \in 1..Len(matches) |->
         [value |-> matches[k].value, type |-> pattern.type,
          start |-> matches[k].index, end |-> EndOffset(matches[k])]]

\* the results one custom pattern pushes, once its expression has compiled
CustomResults(customPattern, text) ==
  LET matches == MatchAllTable[customPattern.pattern, text]
  IN  [k \in 1..Len(matches) |->
         [value |-> matches[k].value, type |-> customPattern.pattern_type,
          start |-> matches[k].index, end |-> EndOffset(matches[k]),
          confidence |-> <<9, 10>>, patternName |-> customPattern.name]]

NoCustom == [results |-> <<>>, evaluated |-> <<>>, raised |-> FALSE]

\* a loop whose body has no try block: the SyntaxError of a malformed
\* expression leaves detectPii
RECURSIVE CheckCustom_NoTry(_, _, _, _)
CheckCustom_NoTry(patterns, k, text, acc) ==
  IF k > Len(patterns) THEN acc
  ELSE IF Compile(patterns[k].pattern) = SyntaxError
       THEN [results |-> acc.results, evaluated |-> acc.evaluated, raised |-> TRUE]
  ELSE CheckCustom_NoTry(patterns, k + 1, text,
         [results |-> acc.results \o CustomResults(patterns[k], text),
          evaluated |-> Append(acc.evaluated, patterns[k].name),
          raised |-> FALSE])

\* the loop over customPatterns from the k-th on: each pattern is compiled
\* and matched inside its own try block, whose catch logs and goes on
RECURSIVE CheckCustom(_, _, _, _)
CheckCustom(patterns, k, text, acc) ==
  IF k > Len(patterns) THEN acc
  ELSE IF Compile(patterns[k].pattern) = SyntaxError
       THEN CheckCustom(patterns, k + 1, text, acc)
  ELSE CheckCustom(patterns, k + 1, text,
         [results |-> acc.results \o CustomResults(patterns[k], text),
          evaluated |-> Append(acc.evaluated, patterns[k].name),
          raised |-> FALSE])

\* self.findIndex(r => r.type === result.type && r.value === result.value)
FindIndex(results, result) ==
  CHOOSE i \in 1..Len(results) :
    /\ results[i].type = result.type /\ results[i].value = result.value
    /\ \A j \in 1..(i - 1) :
         ~(results[j].type = result.type /\ results[j].value = result.value)

\* a filter that takes two results for the same only if they also start at
\* the same offset
RemoveDuplicates_ByOffset(results) ==
  LET same(a, b) == a.type = b.type /\ a.value = b.value /\ a.start = b.start
      first(i) == \A j \in 1..(i - 1) : ~same(results[j], results[i])
      kept == SelectSeq([i \in 1..Len(results) |-> i], first)
  IN  [k \in 1..Len(kept) |-> results[kept[k]]]

\* results.filter((result, index, self) => index === self.findIndex(...))
RemoveDuplicates(results) ==
  LET first(i) == i = FindIndex(results, results[i])
      kept == SelectSeq([i \in 1..Len(results) |-> i], first)
  IN  [k \in 1..Len(kept) |-> results[kept[k]]]

RECURSIVE BuiltInFrom(_, _)
BuiltInFrom(k, text) ==
  IF k > Len(BUILT_IN_PATTERNS) THEN <<>>
  ELSE BuiltInResults(BUILT_IN_PATTERNS[k], text) \o BuiltInFrom(k + 1, text)

NoResult == [results |-> <<>>, evaluated |-> <<>>, raised |-> FALSE, unique |-> <<>>]

\* detectPii(text) with the custom patterns `patterns`: what it returns
\* (unique), the results before the duplicates were removed, the rules
\* whose expression was matched against the text, and whether an exception
\* left the function instead of a list
DetectPii(text, patterns) ==
  IF Len(text) = 0 THEN NoResult
  ELSE LET custom == CheckCustom(patterns, 1, text, NoCustom)
           results == BuiltInFrom(1, text) \o custom.results
       IN  [results |-> results,
            evaluated |-> [k \in 1..Len(BUILT_IN_PATTERNS) |->
                             BUILT_IN_PATTERNS[k].type] \o custom.evaluated,
            raised |-> custom.raised,
            unique |-> IF custom.raised THEN <<>> ELSE RemoveDuplicates(results)]

\* An is_active value is written as its JavaScript literal: "1", "0" and "2"
\* are numbers, "true" and "false" the booleans, "'1'", "'0'" and "'true'"
\* strings.

\* a filter by JavaScript truthiness instead of the three listed values
IsActive_Truthy(p) == p.is_active \notin {"0", "false", "undefined", "''"}

\* p.is_active === 1 || p.is_active === true || p.is_active === '1'
IsActive(p) == p.is_active = "1" \/ p.is_active = "true" \/ p.is_active = "'1'"

\* the rules of the remote catalog (their id and description are never read)
CustomRule(name, pattern, type, flag) ==
  [pattern |-> pattern, pattern_type |-> type, name |-> name,
   is_active |-> flag]

Employee(flag) == CustomRule("employee", EmployeeSource, "CUSTOM", flag)
SsnLike(flag) == CustomRule("ssn-like", SsnLikeSource, "SSN", flag)
Broken(flag) == CustomRule("broken", BrokenSource, "CUSTOM", flag)
Blank(flag) == CustomRule("blank", BlankSource, "CUSTOM", flag)

\* the lists setCustomPatterns is called with: each rule absent, active or
\* inactive, under the different encodings of the flag
PatternLists ==
  { a \o b \o c \o d :
      a \in {<<>>} \cup {<<Broken(f)>> : f \in {"'1'"}},
      b \in {<<>>} \cup {<<Employee(f)>> : f \in {"1", "'true'"}},
      c \in {<<>>} \cup {<<SsnLike(f)>> : f \in {"true", "'0'"}},
      d \in {<<>>} \cup {<<Blank(f)>> : f \in {"true", "2", "undefined"}} }

\* the values `customPatterns` takes, and what detectPii returns for each
\* text under each of them: a function of the two, computed once per pair
ActiveLists == {SelectSeq(patterns, IsActive) : patterns \in PatternLists}

DetectTable ==
  [text \in DetectInputs, patterns \in ActiveLists |-> DetectPii(text, patterns)]

NoScan == [text |-> <<>>, done |-> FALSE, scan |-> NoResult]

\* the module as loaded: no custom pattern, nothing scanned
PatternInit ==
  /\ customPatterns = <<>>
  /\ given = <<>>
  /\ earlier = {}
  /\ lastScan = NoScan

\* setCustomPatterns(patterns): the filter; the test loop that follows
\* compiles each kept expression inside a try block and changes nothing
setCustomPatterns ==
  \E patterns \in PatternLists :
    /\ customPatterns' = SelectSeq(patterns, IsActive)
    /\ given' = patterns
    /\ earlier' = {customPatterns[k].name : k \in 1..Len(customPatterns)}
    /\ lastScan' = NoScan
    /\ UNCHANGED notPattern

\* detectPii(text)
detectPii ==
  \E text \in DetectInputs :
    /\ lastScan' = [text |-> text, done |-> TRUE,
                    scan |-> DetectTable[text, customPatterns]]
    /\ UNCHANGED <<customPatterns, given, earlier>>
    /\ UNCHANGED notPattern

PatternNext == setCustomPatterns \/ detectPii

----------------------------------------------------------------------------
(* OnnxPiiDetector.calculateRiskLevel (onnx-client.ts)                     *)
(*                                                                         *)
(* A confidence is counted in hundredths: analyzeContext rounds every      *)
(* score to two decimals.  calculateRiskLevel reads the type of each       *)
(* detection and their number; a detection is its type here.  The average  *)
(* is the argument the method receives.                                    *)

\* d.type.toUpperCase() for the entity names of the model
ToUpperCase(type) ==
  CASE type = "ssn" -> "SSN"
    [] type = "Credit_Card" -> "CREDIT_CARD"
    [] type = "api_key" -> "API_KEY"
    [] type = "email" -> "EMAIL"
    [] OTHER -> type

highRiskTypes == <<"CREDIT_CARD", "SSN", "PRIVATE_KEY", "API_KEY", "AWS_KEY">>

\* a classification whose thresholds are inclusive
CalculateRiskLevel_Inclusive(ds, avg) ==
  IF Len(ds) = 0 THEN "low"
  ELSE LET hasHighRisk ==
             \E i \in 1..Len(ds) : ToUpperCase(ds[i]) \in SeqToSet(highRiskTypes)
       IN  IF hasHighRisk \/ avg >= 90 THEN "critical"
           ELSE IF avg >= 70 \/ Len(ds) >= 3 THEN "high"
           ELSE IF avg >= 50 \/ Len(ds) >= 1 THEN "medium"
           ELSE "low"

\* calculateRiskLevel(detections, avgConfidence)
CalculateRiskLevel(ds, avg) ==
  IF Len(ds) = 0 THEN "low"
  ELSE LET hasHighRisk ==
             \E i \in 1..Len(ds) : ToUpperCase(ds[i]) \in SeqToSet(highRiskTypes)
       IN  IF hasHighRisk \/ avg > 90 THEN "critical"
           ELSE IF avg > 70 \/ Len(ds) > 3 THEN "high"
           ELSE IF avg > 50 \/ Len(ds) > 1 THEN "medium"
           ELSE "low"

\* the detections calculateRiskLevel is called with: up to five of a kind
\* that is not high-risk, or up to five of which the last is high-risk
DetectionLists ==
  {[i \in 1..n |-> t] : n \in 0..5, t \in {"PER", "email"}}
    \cup {[i \in 1..n |-> IF i = n THEN t ELSE "PER"] :
            n \in 1..5,
            t \in {"SSN", "ssn", "Credit_Card", "PRIVATE_KEY", "api_key", "AWS_KEY"}}

\* the averages it is called with, in hundredths
Averages == {0, 1, 49, 50, 51, 69, 70, 71, 89, 90, 91, 100}

NoRisk == [done |-> FALSE, value |-> "none"]

\* no detection has been classified
RiskInit ==
  /\ detected = <<>>
  /\ avgConfidence = 0
  /\ riskLevel = NoRisk

\* calculateRiskLevel(detections, avgConfidence) returns
calculateRiskLevel ==
  /\ ~riskLevel.done
  /\ riskLevel' = [done |-> TRUE,
                   value |-> CalculateRiskLevel(detected, avgConfidence)]
  /\ UNCHANGED <<detected, avgConfidence>>
  /\ UNCHANGED notRisk

RiskNext == calculateRiskLevel

----------------------------------------------------------------------------
(* OnnxPiiDetector: initialize, _initialize, dispose (onnx-client.ts)      *)
(*                                                                         *)
(* An _initialize call stands at "deps" while it awaits loadDependencies,  *)
(* at "pipeline" while it awaits the model load pipeline(...), and is then *)
(* "fulfilled" or "rejected".  The initialize call that made it awaits its *)
(* promise; its finally block runs as the promise settles.                 *)

MaxLoads == 3

OnnxInit ==
  /\ detector = 0
  /\ isInitializing = FALSE
  /\ initPromise = 0
  /\ dependenciesLoaded = FALSE
  /\ loads = <<>>
  /\ disposed = FALSE
  /\ lastInit = "none"

\* the second early return of initialize
JoinGuard(flag, promise) == flag /\ promise # 0

\* initialize() up to its await (or its return)
initialize ==
  /\ (detector = 0 /\ ~JoinGuard(isInitializing, initPromise))
       => Len(loads) < MaxLoads
  /\ disposed' = FALSE
  /\ IF detector # 0
     THEN /\ lastInit' = "ready"
          /\ UNCHANGED <<isInitializing, initPromise, loads>>
     ELSE IF JoinGuard(isInitializing, initPromise)
          THEN /\ lastInit' = "joined"
               /\ UNCHANGED <<isInitializing, initPromise, loads>>
          ELSE /\ lastInit' = "started"
               /\ isInitializing' = TRUE
               /\ loads' = Append(loads, "deps")
               /\ initPromise' = Len(loads) + 1
  /\ UNCHANGED <<detector, dependenciesLoaded>>
  /\ UNCHANGED notOnnx

\* the state an _initialize call leaves when it ends: the call itself
\* assigns the detector, and the finally block of the initialize call
\* awaiting it clears the flag
Settle(k, outcome, model) ==
  /\ loads' = [loads EXCEPT ![k] = outcome]
  /\ detector' = model
  /\ isInitializing' = FALSE
  /\ UNCHANGED <<initPromise, disposed, lastInit>>
  /\ UNCHANGED notOnnx

\* await loadDependencies() resolves: pipeline(...) is called
DepsLoaded ==
  \E k \in 1..Len(loads) :
    /\ loads[k] = "deps"
    /\ loads' = [loads EXCEPT ![k] = "pipeline"]
    /\ dependenciesLoaded' = TRUE
    /\ UNCHANGED <<detector, isInitializing, initPromise, disposed, lastInit>>
    /\ UNCHANGED notOnnx

\* await loadDependencies() rejects (the import failed): the catch block of
\* _initialize sets the detector to null and rethrows
DepsFail ==
  \E k \in 1..Len(loads) :
    /\ loads[k] = "deps"
    /\ ~dependenciesLoaded
    /\ Settle(k, "rejected", 0)
    /\ UNCHANGED dependenciesLoaded

\* await pipeline(...) resolves: this.detector = the pipeline
PipelineResolves ==
  \E k \in 1..Len(loads) :
    /\ loads[k] = "pipeline"
    /\ Settle(k, "fulfilled", k)
    /\ UNCHANGED dependenciesLoaded

\* await pipeline(...) rejects: the catch block sets the detector to null
PipelineRejects ==
  \E k \in 1..Len(loads) :
    /\ loads[k] = "pipeline"
    /\ Settle(k, "rejected", 0)
    /\ UNCHANGED dependenciesLoaded

\* dispose()
dispose ==
  /\ detector' = 0
  /\ isInitializing' = FALSE
  /\ initPromise' = 0
  /\ disposed' = TRUE
  /\ UNCHANGED <<dependenciesLoaded, loads, lastInit>>
  /\ UNCHANGED notOnnx

OnnxNext ==
  \/ initialize
  \/ DepsLoaded
  \/ DepsFail
  \/ PipelineResolves
  \/ PipelineRejects
  \/ dispose

Init ==
  /\ QueueInit /\ ScanInit /\ CacheInit /\ GateInit /\ ChangeInit /\ PatternInit
  /\ RiskInit /\ OnnxInit

\* setAiScanState(partial) up to its first await (storage.getItem), called by
\* transition op with arguments args
SetAiScanState(c, op, args, partial) ==
  /\ ~Active(c)
  /\ FirstFree(c)
  /\ calls < MaxCalls
  /\ calls' = calls + 1
  /\ callers' =
       [d \in Callers |->
          IF d = c
          THEN [pc |-> "reading", op |-> op, args |-> args, at |-> now,
                partial |-> partial, pre |-> stored,
                next |-> NoRecord, rdOk |-> TRUE,
                mates |-> Cardinality({o \in Callers \ {c} : Active(o)})]
          ELSE IF Active(d)
               THEN [callers[d] EXCEPT !.mates = Bump(@)]
               ELSE callers[d]]
  /\ now' = now + 1
  /\ lastRead' = NoRead
  /\ UNCHANGED <<stored, hist>>
  /\ note' = NoNote
  /\ UNCHANGED listeners
  /\ UNCHANGED notScanState

startAiScan ==
  \E c \in Callers, args \in StartArgs :
    SetAiScanState(c, "start", args, StartPartial(args[1], args[2]))

completeAiScan ==
  \E c \in Callers, detectionCount \in Counts :
    SetAiScanState(c, "complete", <<detectionCount>>,
                   CompletePartial(detectionCount, now))

failAiScan ==
  \E c \in Callers, error \in ErrorTexts :
    SetAiScanState(c, "fail", <<error>>, FailPartial(error, now))

resetAiScanState ==
  \E c \in Callers : SetAiScanState(c, "reset", <<>>, ResetPartial)

\* await getAiScanState() settles inside setAiScanState: the merged record is
\* built and storage.setItem is called
MergeRead(c, readOk) ==
  /\ callers[c].pc = "reading"
  /\ callers' = [callers EXCEPT
       ![c].pc = "writing",
       ![c].rdOk = readOk,
       ![c].next = Spread(GetAiScanState(stored, readOk), callers[c].partial)]
  /\ UNCHANGED <<stored, now, calls, hist, lastRead>>
  /\ note' = NoNote
  /\ UNCHANGED listeners
  /\ UNCHANGED notScanState

SetReadOk == \E c \in Callers : MergeRead(c, TRUE)

SetReadFail == \E c \in Callers : MergeRead(c, FALSE)

\* await storage.setItem settles: on success the record is stored and the
\* listeners are notified with the merged record, on failure the catch block
\* logs; the call returns
WriteSettles(c, writeOk) ==
  /\ callers[c].pc = "writing"
  /\ \E throwers \in SUBSET SeqToSet(listeners) :
       note' = IF Notifies(writeOk)
               THEN NotifyStateChange(listeners, throwers, callers[c].next)
               ELSE NoNote
  /\ UNCHANGED listeners
  /\ stored' = IF writeOk THEN Serialize(callers[c].next) ELSE stored
  /\ hist' = Remember(hist,
       [op |-> callers[c].op, args |-> callers[c].args, at |-> callers[c].at,
        partial |-> callers[c].partial, pre |-> callers[c].pre,
        rdOk |-> callers[c].rdOk, mates |-> callers[c].mates,
        wrOk |-> writeOk])
  /\ callers' = [callers EXCEPT ![c] = Idle]
  /\ lastRead' = NoRead
  /\ UNCHANGED <<now, calls>>
  /\ UNCHANGED notScanState

SetWriteOk == \E c \in Callers : WriteSettles(c, TRUE)

SetWriteFail == \E c \in Callers : WriteSettles(c, FALSE)

\* an observer's getAiScanState()
ReadState(readOk) ==
  /\ lastRead' = [fresh |-> TRUE, ok |-> readOk,
                  result |-> GetAiScanState(stored, readOk)]
  /\ UNCHANGED <<stored, callers, now, calls, hist>>
  /\ note' = NoNote
  /\ UNCHANGED listeners
  /\ UNCHANGED notScanState

GetOk == ReadState(TRUE)

GetFail == ReadState(FALSE)

\* subscribeToStateChanges(listener)
subscribeToStateChanges ==
  /\ Len(listeners) < Cardinality(Listeners)
  /\ \E l \in Listeners : listeners' = Append(listeners, l)
  /\ note' = NoNote
  /\ UNCHANGED svars
  /\ UNCHANGED notScanState

\* the function subscribeToStateChanges returned: indexOf, then splice
unsubscribe ==
  /\ \E l \in SeqToSet(listeners) :
       LET index == CHOOSE i \in 1..Len(listeners) :
                      /\ listeners[i] = l
                      /\ \A j \in 1..(i - 1) : listeners[j] # l
       IN listeners' = SubSeq(listeners, 1, index - 1)
                         \o SubSeq(listeners, index + 1, Len(listeners))
  /\ note' = NoNote
  /\ UNCHANGED svars
  /\ UNCHANGED notScanState

\* the function subscribeToStateChanges(l) returned, called on the array ls
Unsubscribe(ls, l) ==
  IF l \in SeqToSet(ls)
  THEN LET index == CHOOSE i \in 1..Len(ls) :
                      /\ ls[i] = l
                      /\ \A j \in 1..(i - 1) : ls[j] # l
       IN  SubSeq(ls, 1, index - 1) \o SubSeq(ls, index + 1, Len(ls))
  ELSE ls

\* what the callback of a listener does when it is called: it returns, it
\* throws, or it calls the unsubscribe function of a listener and returns
CallbackActs == {"return", "throw"} \cup Listeners

\* listeners.forEach of notifyStateChange from index i on (1-based), the
\* callbacks acting as acts says, on the array itself: forEach visits the
\* indices in turn and skips those the array no longer has, so a splice
\* made by a callback moves the later listeners one index down
RECURSIVE ForEachListener(_, _, _, _, _)
ForEachListener(ls, i, acts, state, called) ==
  IF i > Len(ls) THEN [calls |-> called, listeners |-> ls]
  ELSE ForEachListener(
         IF acts[ls[i]] \in Listeners THEN Unsubscribe(ls, acts[ls[i]]) ELSE ls,
         i + 1, acts, state,
         Append(called, [state |-> state, listener |-> ls[i],
                         threw |-> acts[ls[i]] = "throw"]))

\* await storage.setItem resolves and notifyStateChange runs, with callbacks
\* that may unsubscribe
WriteNotifies(c) ==
  /\ callers[c].pc = "writing"
  /\ \E acts \in [SeqToSet(listeners) -> CallbackActs] :
       LET done == ForEachListener(listeners, 1, acts, callers[c].next, <<>>)
       IN  /\ note' = [calls |-> done.calls, escaped |-> FALSE]
           /\ listeners' = done.listeners
  /\ stored' = Serialize(callers[c].next)
  /\ hist' = Remember(hist,
       [op |-> callers[c].op, args |-> callers[c].args, at |-> callers[c].at,
        partial |-> callers[c].partial, pre |-> callers[c].pre,
        rdOk |-> callers[c].rdOk, mates |-> callers[c].mates,
        wrOk |-> TRUE])
  /\ callers' = [callers EXCEPT ![c] = Idle]
  /\ lastRead' = NoRead
  /\ UNCHANGED <<now, calls>>
  /\ UNCHANGED notScanState

SetNotify == \E c \in Callers : WriteNotifies(c)

ScanStateNext ==
  \/ startAiScan
  \/ completeAiScan
  \/ failAiScan
  \/ resetAiScanState
  \/ SetReadOk
  \/ SetReadFail
  \/ SetWriteOk
  \/ SetWriteFail
  \/ GetOk
  \/ GetFail

----------------------------------------------------------------------------
(* Specifications                                                          *)

\* the queue does not touch the scan state: its specifications start from
\* the first run, with nothing in storage
FirstRun == Init /\ stored = NoRecord

SpecQueue == FirstRun /\ [][QueueNext]_vars

SpecScanState == Init /\ [][ScanStateNext]_vars

\* the scan state with subscribed listeners, from the first run; storage
\* writes succeed or fail, storage reads succeed (SpecScanState has the
\* failing reads, which change only the record that is merged)
ListenerNext ==
  \/ subscribeToStateChanges
  \/ unsubscribe
  \/ startAiScan
  \/ completeAiScan
  \/ failAiScan
  \/ resetAiScanState
  \/ SetReadOk
  \/ SetWriteOk
  \/ SetWriteFail

SpecListeners == FirstRun /\ [][ListenerNext]_vars

\* the scan state with listeners whose callbacks may unsubscribe while they
\* are notified, from the first run; the storage calls succeed
UnsubscribeNext ==
  \/ subscribeToStateChanges
  \/ startAiScan
  \/ completeAiScan
  \/ SetReadOk
  \/ SetNotify

SpecUnsubscribe == FirstRun /\ [][UnsubscribeNext]_vars

\* the result cache of one AiScanOptimizer, from its construction
SpecCache == FirstRun /\ [][CacheNext]_vars

\* a page about to ask the gate about one text
TextGiven ==
  /\ QueueInit /\ ScanInit /\ stored = NoRecord /\ CacheInit /\ ChangeInit
  /\ PatternInit /\ RiskInit /\ OnnxInit
  /\ scanText \in ScanInputs
  /\ verdict = Pending

SpecGate == TextGiven /\ [][GateNext]_vars

\* an editor about to ask whether an edit warrants a new scan
EditGiven ==
  /\ QueueInit /\ ScanInit /\ stored = NoRecord /\ CacheInit /\ GateInit
  /\ PatternInit /\ RiskInit /\ OnnxInit
  /\ \E e \in ChangeInputs : oldText = e[1] /\ newText = e[2]
  /\ changed = Pending

SpecChange == EditGiven /\ [][ChangeNext]_vars

\* the pattern matcher from the loading of its module: catalog updates and
\* scans in any order
SpecPatterns == FirstRun /\ [][PatternNext]_vars

\* a page whose catalog has been loaded once, about to scan texts
CatalogLoaded ==
  /\ QueueInit /\ ScanInit /\ stored = NoRecord /\ CacheInit /\ GateInit
  /\ ChangeInit /\ RiskInit /\ OnnxInit
  /\ given \in PatternLists
  /\ customPatterns = SelectSeq(given, IsActive)
  /\ earlier = {}
  /\ lastScan = NoScan

DetectNext == detectPii

SpecDetect == CatalogLoaded /\ [][DetectNext]_vars

\* analyzeContext about to classify the detections of one text; with none,
\* the average it passes is 0
DetectionsGiven ==
  /\ QueueInit /\ ScanInit /\ stored = NoRecord /\ CacheInit /\ GateInit
  /\ ChangeInit /\ PatternInit /\ OnnxInit
  /\ detected \in DetectionLists
  /\ avgConfidence \in Averages
  /\ Len(detected) = 0 => avgConfidence = 0
  /\ riskLevel = NoRisk

SpecRisk == DetectionsGiven /\ [][RiskNext]_vars

\* one OnnxPiiDetector, from its construction
SpecOnnx == FirstRun /\ [][OnnxNext]_vars

\* A trigger that starts a drain pass: the timer's flush found work to do
FlushStartsDrain == Flush /\ inflight' # inflight

(* The queue under the hypotheses of the delivery guarantee: a client gets  *)
(* configured, the 30 s timer keeps firing at moments when a pass can       *)
(* start, and the collector accepts a batch again and again.                *)
SpecQueueFair ==
  /\ FirstRun
  /\ [][QueueNext]_vars
  /\ WF_vars(initializeApiClient)
  /\ SF_vars(FlushStartsDrain)
  /\ SF_vars(DeliverOk)

----------------------------------------------------------------------------
(* Properties of the DetectionQueue                                        *)

Events == 1..MaxEvents

InFlightEvents == UNION {SeqToSet(b) : b \in inflight}

DeliveredEvents == SeqToSet(Flatten(delivered))

\* how many times event e occurs in sequence s
Occurrences(s, e) == Cardinality({i \in 1..Len(s) : s[i] = e})

\* how many places hold event e, counting repeats
Places(e) ==
    Occurrences(queue, e)
  + Cardinality({b \in inflight : e \in SeqToSet(b)})
  + Occurrences(Flatten(delivered), e)
  + (IF e \in dropped THEN 1 ELSE 0)

\* C1: whatever the interleaving of add, timer and lifecycle triggers, at most
\* one drain pass is executing: at most one batch delivery call is in flight.
C1_SingleDrain == Cardinality(inflight) <= 1

\* C1 witness: a delivery is in flight and a trigger has arrived meanwhile
C1_TriggerWhileDraining ==
  /\ processing
  /\ Cardinality(inflight) = 1
  /\ last.act \in {"add", "flush"}
  /\ last.batch = <<>>
  /\ Len(queue) > 0

\* C2: a step in which the delivery of batch b fails leaves b at the front of
\* the queue, in its order, followed by exactly what the queue held before
\* (the events queued behind b and those added while b was in flight).
C2_RequeueAtFront ==
  [][\A b \in inflight :
       (inflight' = inflight \ {b} /\ delivered' = delivered)
         => /\ Len(queue') = Len(b) + Len(queue)
            /\ SubSeq(queue', 1, Len(b)) = b
            /\ SubSeq(queue', Len(b) + 1, Len(queue')) = queue]_vars

\* C2 witness: a full batch was just restored ahead of events added meanwhile
C2_RestoredAheadOfLater ==
  /\ last.act = "fail"
  /\ Len(last.batch) = BATCH_SIZE
  /\ Len(queue) > BATCH_SIZE
  /\ SubSeq(queue, 1, BATCH_SIZE) = last.batch
  /\ \A i \in (BATCH_SIZE + 1)..Len(queue) : queue[i] > last.batch[BATCH_SIZE]

\* C3: after adding one event more than the maximum while the collector has
\* accepted none, exactly the newest MAX_QUEUE_SIZE events are retained, in
\* enqueue order; and an overflow only drops events older than every event
\* the queue retains.
C3_KeepsNewest ==
  /\ (added = MAX_QUEUE_SIZE + 1 /\ delivered = <<>> /\ inflight = {})
       => queue = [i \in 1..MAX_QUEUE_SIZE |-> i + 1]
  /\ \A d \in dropped : \A e \in SeqToSet(queue) : d < e

\* C4: the queue never holds more than MAX_QUEUE_SIZE events.
C4_QueueBounded == Len(queue) <= MAX_QUEUE_SIZE

C6_ExactlyOnePlace ==
  \A e \in Events : Places(e) = (IF e <= added THEN 1 ELSE 0)

\* C6 witness: all four places are occupied at once
C6_AllPlacesOccupied ==
  /\ Len(queue) > 0
  /\ inflight # {}
  /\ delivered # <<>>
  /\ dropped # {}

\* C28: the step in which a batch delivery fails makes no delivery call and
\* ends the pass; the next delivery call is made by a later trigger (an add
\* or a flush), never by the pass that failed.
C28_NoRetryInsidePass ==
  [][/\ (requeued' # requeued \/ (last'.act = "fail" /\ last' # last))
          => (inflight' \subseteq inflight /\ ~processing')
     /\ (last.act = "fail" /\ inflight' \ inflight # {})
          => last'.act \in {"add", "flush"}]_vars

\* C28 witness: a trigger has just sent again events of a batch that failed
C28_ResentByLaterTrigger ==
  /\ last.act \in {"add", "flush"}
  /\ last.batch # <<>>
  /\ SeqToSet(last.batch) \cap requeued # {}
  /\ delivered = <<>>

\* C29: every batch handed to the collector holds between one and BATCH_SIZE
\* events; and the step in which a delivery succeeds sends the (at most)
\* BATCH_SIZE events now at the head of the queue, whenever they were added,
\* leaving the rest queued, and ends the pass only if the queue is empty.
C29_SuccessKeepsDraining ==
  [][/\ \A b \in inflight' \ inflight : Len(b) >= 1 /\ Len(b) <= BATCH_SIZE
     /\ delivered' # delivered
          => IF queue = <<>>
             THEN ~processing' /\ inflight' = {} /\ queue' = <<>>
             ELSE /\ processing'
                  /\ inflight' = {SubSeq(queue, 1, Min(BATCH_SIZE, Len(queue)))}
                  /\ queue' = SubSeq(queue, Min(BATCH_SIZE, Len(queue)) + 1,
                                     Len(queue))]_vars

\* C29 witness: a batch shorter than BATCH_SIZE emptied the queue, it was
\* accepted, and the pass went on with events added while it was in flight
C29_SentWhatWasAddedMeanwhile ==
  /\ last.act = "ok"
  /\ Len(last.batch) < BATCH_SIZE
  /\ processing
  /\ inflight # {}
  /\ Len(queue) > 0

\* C30: a trigger that finds a pass running or the queue empty changes
\* nothing: after a flush, queue, flag and in-flight calls are as before;
\* after an add, the queue is what the push and truncation made of it, the
\* flag and the in-flight calls are as before.
C30_TriggerIsNoOp ==
  [][/\ (last'.act = "flush" /\ (processing \/ queue = <<>>))
          => (queue' = queue /\ processing' = processing /\ inflight' = inflight)
     /\ (added' = added + 1 /\ processing)
          => /\ processing' = processing
             /\ inflight' = inflight
             /\ queue' = SliceLast(Append(queue, added'), MAX_QUEUE_SIZE)]_vars

\* C30 witness: the timer fired while a pass was running with events queued
C30_FlushWhileDraining ==
  /\ last.act = "flush"
  /\ last.batch = <<>>
  /\ processing
  /\ inflight # {}
  /\ Len(queue) = MAX_QUEUE_SIZE

\* C34: events are numbered in enqueue order, and the events the collector
\* accepted, batch after batch and in the order within each batch, are in
\* increasing order.
C34_DeliveredInEnqueueOrder ==
  \A i, j \in 1..Len(Flatten(delivered)) :
    i < j => Flatten(delivered)[i] < Flatten(delivered)[j]

\* C34 witness: after an earlier delivery, a batch was accepted that held an
\* event requeued by a failure ahead of an event that was never requeued
C34_RequeuedDeliveredAhead ==
  /\ Len(delivered) >= 2
  /\ LET b == delivered[Len(delivered)]
     IN  /\ Len(b) = 2
         /\ b[1] \in requeued
         /\ b[2] \notin requeued

\* C35: the processing flag is true exactly while a pass is executing, that
\* is while a delivery call of it is in flight; the step that ends a pass
\* (the queue drained or the delivery failed) leaves it false; and a trigger
\* that finds no client configured leaves it false and the queue as it was
\* (after an add: as the push and truncation made it).
C35_FlagFalseWhenPassEnds ==
  /\ [](processing <=> inflight # {})
  /\ [][/\ (inflight # {} /\ inflight' = {}) => ~processing'
        /\ (~apiClient /\ ~processing /\ last'.act = "flush")
             => (~processing' /\ inflight' = {} /\ queue' = queue)
        /\ (~apiClient /\ ~processing /\ added' = added + 1)
             => /\ ~processing' /\ inflight' = {}
                /\ queue' = SliceLast(Append(queue, added'), MAX_QUEUE_SIZE)]_vars

\* C35 witness: a delivery has just failed with events queued; the flag is
\* false and no call is in flight
C35_FailedPassEnded ==
  /\ last.act = "fail"
  /\ ~processing
  /\ inflight = {}
  /\ Len(queue) > Len(last.batch)

----------------------------------------------------------------------------
(* Properties of the AI scan state                                         *)

Quiescent == \A c \in Callers : ~Active(c)

HistLast == hist[Len(hist)]

\* key k of record r holds what partial p set it to (undefined: no value)
HoldsValueOf(r, p, k) ==
  IF k \in StringKeys /\ p[k] = Undefined
  THEN k \notin DOMAIN r
  ELSE k \in DOMAIN r /\ r[k] = p[k]

\* the two latest transitions ran concurrently with each other and with no
\* third one, and every storage call of theirs succeeded
RacedPair ==
  /\ Quiescent
  /\ Len(hist) = 2
  /\ \A i \in 1..2 : hist[i].mates = 1 /\ hist[i].rdOk /\ hist[i].wrOk

\* C7: after two concurrent transitions have both completed, a field that
\* only one of them sets holds that writer's value.
C7_NoLostUpdate ==
  RacedPair =>
    \A i \in 1..2 :
      \A k \in DOMAIN hist[i].partial \ DOMAIN hist[3 - i].partial :
        HoldsValueOf(stored, hist[i].partial, k)

\* C8: the persisted record has an error only when its status is error.
C8_ErrorOnlyWithErrorStatus ==
  (stored # NoRecord /\ "error" \in DOMAIN stored) => stored.status = "error"

\* C8 witness: a fail that ran concurrently with another transition was the
\* last to write
C8_ErrorAfterConcurrentFail ==
  /\ Len(hist) = 2
  /\ HistLast.op = "fail" /\ HistLast.mates = 1 /\ HistLast.wrOk
  /\ Quiescent
  /\ "error" \in DOMAIN stored

\* start() then fail(e), each with no other transition running, then a read
StartFailRead ==
  /\ Quiescent
  /\ Len(hist) = 2
  /\ hist[1].op = "start" /\ hist[1].mates = 0
  /\ hist[2].op = "fail" /\ hist[2].mates = 0
  /\ lastRead.fresh

\* what the read after start() and fail(e) must return
ReadShowsFailure ==
  /\ lastRead.result.status = "error"
  /\ "error" \in DOMAIN lastRead.result
  /\ lastRead.result.error = hist[2].partial.error
  /\ "lastScanTime" \in DOMAIN lastRead.result
  /\ lastRead.result.detectionCount
       = GetAiScanState(hist[1].pre, TRUE).detectionCount

IdleRecord(r) ==
  /\ r # NoRecord
  /\ r.status = "idle"
  /\ r.detectionCount = 0
  /\ "error" \notin DOMAIN r

HoldsArg(r, k, v) ==
  IF v = Undefined THEN k \notin DOMAIN r ELSE k \in DOMAIN r /\ r[k] = v

\* the record a read of the scan state returns now (storage read succeeding)
Persisted == GetAiScanState(stored, TRUE)

LastWas(op) == Len(hist) > 0 /\ HistLast.op = op

ScanningRecord(r, args) ==
  /\ r.status = "scanning"
  /\ "error" \notin DOMAIN r
  /\ HoldsArg(r, "currentDomain", args[1])
  /\ HoldsArg(r, "textPreview", args[2])

SuccessRecord(r, n, t) ==
  /\ r.status = "success"
  /\ r.detectionCount = n
  /\ "lastScanTime" \in DOMAIN r /\ r.lastScanTime = t
  /\ "error" \notin DOMAIN r

C15_ReadNeverFails ==
  lastRead.fresh =>
    /\ lastRead.result # NoRecord
    /\ lastRead.result =
         (IF stored = NoRecord \/ ~lastRead.ok THEN DefaultState ELSE stored)
    /\ (Len(hist) > 0 /\ HistLast.wrOk /\ lastRead.ok) => lastRead.result = stored

\* C15 witness: the storage read raised while a scan was recorded as running
C15_DefaultOnReadError ==
  /\ lastRead.fresh /\ ~lastRead.ok
  /\ stored # NoRecord /\ stored.status = "scanning"
  /\ lastRead.result = DefaultState

\* the fields each transition does not set
KeptFields(op) ==
  CASE op = "start" -> {"detectionCount", "lastScanTime"}
    [] op = "complete" -> {"currentDomain", "textPreview"}
    [] op = "fail" -> {"detectionCount", "currentDomain", "textPreview"}
    [] op = "reset" -> {"lastScanTime", "currentDomain", "textPreview"}

\* records a and b agree on field k: both lack it or both hold the same
SameField(a, b, k) ==
  /\ (k \in DOMAIN a) = (k \in DOMAIN b)
  /\ k \in DOMAIN a => a[k] = b[k]

\* C32: the step in which a transition ends leaves every field it does not
\* set as a read of the state showed it just before: start keeps
\* detectionCount and lastScanTime, complete keeps currentDomain and
\* textPreview, fail keeps detectionCount, currentDomain and textPreview,
\* reset keeps lastScanTime, currentDomain and textPreview.
C32_OtherFieldsKept ==
  [][\A c \in Callers :
       (callers[c].pc = "writing" /\ callers'[c].pc = "idle")
       => \A k \in KeptFields(callers[c].op) :
            SameField(GetAiScanState(stored, TRUE),
                      GetAiScanState(stored', TRUE), k)]_vars

\* the same for a transition whose storage read succeeded and during which
\* no other transition was running
C32_OtherFieldsKeptWhenAlone ==
  [][\A c \in Callers :
       (callers[c].pc = "writing" /\ callers'[c].pc = "idle"
          /\ callers[c].rdOk /\ callers[c].mates = 0)
       => \A k \in KeptFields(callers[c].op) :
            SameField(GetAiScanState(stored, TRUE),
                      GetAiScanState(stored', TRUE), k)]_vars

----------------------------------------------------------------------------
(* Properties of the scan-state listeners                                  *)

\* C13: listeners are called only when the merged record has been written,
\* and the record each of them receives is, field by field, the record that
\* was written.
C13_NotifiedAfterWrite ==
  \A i \in 1..Len(note.calls) :
    /\ Len(hist) > 0 /\ HistLast.wrOk
    /\ stored = Serialize(note.calls[i].state)
    /\ \A k \in DOMAIN stored : note.calls[i].state[k] = stored[k]
    /\ \A k \in DOMAIN note.calls[i].state \ DOMAIN stored :
         note.calls[i].state[k] = Undefined

\* C13 witness: two listeners received the record of a fail that replaced
\* an earlier record
C13_TwoNotified ==
  /\ Len(note.calls) = 2
  /\ Len(hist) = 2 /\ HistLast.op = "fail" /\ hist[1].wrOk
  /\ \A i \in 1..2 : note.calls[i].state.status = "error"
  /\ stored.status = "error"

\* C14: in the step where a storage write succeeds, every subscribed
\* listener is called once, in order, with the merged record, whichever
\* listeners throw; no exception leaves the notification and the caller's
\* transition returns.
C14_ThrowingListenerIsolated ==
  [][\A c \in Callers :
       (callers[c].pc = "writing" /\ callers'[c].pc = "idle"
          /\ stored' = Serialize(callers[c].next) /\ hist'[Len(hist')].wrOk)
       => /\ Len(note'.calls) = Len(listeners)
          /\ \A i \in 1..Len(listeners) :
               /\ note'.calls[i].listener = listeners[i]
               /\ note'.calls[i].state = callers[c].next
          /\ ~note'.escaped]_vars

\* C14 witness: the first of two listeners threw and the second was called
C14_SecondCalledAfterThrow ==
  /\ Len(note.calls) = 2
  /\ note.calls[1].threw /\ ~note.calls[2].threw
  /\ note.calls[1].listener # note.calls[2].listener
  /\ note.calls[2].state = note.calls[1].state
  /\ \A c \in Callers : ~Active(c)

\* how many of the calls of a notification went to listener l
CallsTo(n, l) == Cardinality({i \in 1..Len(n.calls) : n.calls[i].listener = l})

\* C36: in the step where a transition is notified, every listener that is
\* subscribed (once) when the notification begins and is still subscribed
\* when it ends is called exactly once, whatever the callbacks unsubscribe.
C36_EverySubscribedListenerCalled ==
  [][\A c \in Callers :
       (callers[c].pc = "writing" /\ callers'[c].pc = "idle"
          /\ hist'[Len(hist')].wrOk
          /\ Cardinality(SeqToSet(listeners)) = Len(listeners))
       => \A l \in SeqToSet(listeners) \cap SeqToSet(listeners') :
            CallsTo(note', l) = 1]_vars

\* C31: the step in which the storage write of a transition fails ends the
\* transition (its caller gets no exception), leaves the persisted record
\* as it was and calls no listener.
C31_FailedWriteIsSilent ==
  [][\A c \in Callers :
       (callers[c].pc = "writing" /\ callers'[c].pc = "idle"
          /\ ~hist'[Len(hist')].wrOk)
       => /\ callers'[c] = Idle
          /\ stored' = stored
          /\ note'.calls = <<>>
          /\ ~note'.escaped
          /\ listeners' = listeners]_vars

\* C31 witness: with two listeners subscribed, a transition was written and
\* the write of the next one, of another kind, failed: the record is still
\* the first one's and nobody was called
C31_SecondWriteFailed ==
  /\ Len(hist) = 2
  /\ hist[1].wrOk /\ ~hist[2].wrOk
  /\ hist[2].mates = 0
  /\ hist[1].op # hist[2].op
  /\ stored = Serialize(Spread(DefaultState, hist[1].partial))
  /\ stored.status # hist[2].partial.status
  /\ Len(listeners) = 2
  /\ note = NoNote
  /\ Quiescent

----------------------------------------------------------------------------
(* Properties of the result cache                                          *)

\* the age at time t of the entry map m holds under key h
Age(m, h, t) == t - m[h].timestamp

LastGot == lastOp.op = "getCachedResult"

\* C16: getCachedResult(T) called right after cacheResult(T, M), with no
\* other call on the cache between them and no more than the TTL elapsed,
\* returns exactly M.
C16_PutThenGet ==
  [][(/\ lastOp.op = "cacheResult"
      /\ lastOp'.op = "getCachedResult"
      /\ lastOp'.text = lastOp.text
      /\ now - lastOp.at <= CACHE_DURATION)
     => lastOp'.result = Found(lastOp.detections)]_vars

\* C16 witness: a lookup returned the list stored for its text at this very
\* time, which replaced an older entry holding another list
C16_GotWhatWasJustPut ==
  /\ LastGot /\ lastOp.result.found
  /\ Len(puts) > 0 /\ puts[Len(puts)].text = lastOp.text
  /\ Age(lastOp.before, HashText(lastOp.text), lastOp.at) = 0
  /\ lastOp.result.detections = puts[Len(puts)].detections
  /\ lastOp.result.detections = <<"m1">>
  /\ lastOp.at > 1

\* C17: a lookup never returns an entry older than the TTL; when the entry
\* under the text's hash is older than the TTL the lookup returns absent and
\* leaves the cache without that entry.
C17_NoExpiredResult ==
  LastGot =>
    LET h == HashText(lastOp.text)
        had == h \in DOMAIN lastOp.before
    IN /\ lastOp.result.found =>
            had /\ Age(lastOp.before, h, lastOp.at) <= CACHE_DURATION
       /\ (had /\ Age(lastOp.before, h, lastOp.at) > CACHE_DURATION) =>
            ~lastOp.result.found /\ h \notin DOMAIN cache

\* C17 witness: a lookup found an entry older than the TTL and removed it
C17_ExpiredEvictedByLookup ==
  /\ LastGot
  /\ HashText(lastOp.text) \in DOMAIN lastOp.before
  /\ Age(lastOp.before, HashText(lastOp.text), lastOp.at) > CACHE_DURATION
  /\ lastOp.result = Absent
  /\ HashText(lastOp.text) \notin DOMAIN cache

\* C18: a list returned by getCachedResult(T) is the list of the most
\* recent cacheResult call made for that exact text T.
C18_ResultIsForSameText ==
  (LastGot /\ lastOp.result.found) =>
    \E i \in 1..Len(puts) :
      /\ puts[i].text = lastOp.text
      /\ puts[i].detections = lastOp.result.detections

\* the cacheResult calls recorded for a text with the hash of text
SameHash(text) == {i \in 1..Len(puts) : HashText(puts[i].text) = HashText(text)}

\* C18, amended: a list returned by getCachedResult(T) is the list of the
\* most recent cacheResult call made for a text with the same hash as T.
C18_ResultIsForSameHash ==
  (LastGot /\ lastOp.result.found) =>
    /\ SameHash(lastOp.text) # {}
    /\ LET i == CHOOSE j \in SameHash(lastOp.text) :
                   \A k \in SameHash(lastOp.text) : k <= j
       IN puts[i].detections = lastOp.result.detections

\* C18 witness: two texts with one hash were cached with different lists,
\* and the lookup of the later one returned the later list
C18_LaterOfTwoColliding ==
  /\ LastGot /\ lastOp.result.found
  /\ Cardinality(SameHash(lastOp.text)) = 2
  /\ puts[Len(puts)].text = lastOp.text
  /\ \E i \in 1..(Len(puts) - 1) :
       /\ i \in SameHash(lastOp.text)
       /\ puts[i].detections # puts[Len(puts)].detections
  /\ lastOp.result.detections = puts[Len(puts)].detections

\* C19: when cacheResult returns, the cache holds the entry just stored and
\* no entry older than the TTL.
C19_SweptAfterPut ==
  lastOp.op = "cacheResult" =>
    LET h == HashText(lastOp.text)
    IN /\ h \in DOMAIN cache
       /\ cache[h] = [hash |-> h, timestamp |-> lastOp.at,
                      detections |-> lastOp.detections]
       /\ \A k \in DOMAIN cache : Age(cache, k, lastOp.at) <= CACHE_DURATION

\* C19 witness: cacheResult swept an entry of another text older than the TTL
C19_ExpiredSweptByPut ==
  /\ lastOp.op = "cacheResult"
  /\ \E k \in DOMAIN lastOp.before :
       /\ k # HashText(lastOp.text)
       /\ Age(lastOp.before, k, lastOp.at) > CACHE_DURATION
       /\ k \notin DOMAIN cache
  /\ HashText(lastOp.text) \in DOMAIN cache

----------------------------------------------------------------------------
(* Properties of the scan gate                                             *)

\* the texts the gate must reject
TooShortOrLong(text) == Len(text) < 10 \/ Len(text) > 5000
MostlySpace(text) == Len(Trim(text)) < 10
Repetitive(text) == Cardinality(CodePoints(text)) < 5 /\ Len(text) > 20

\* C20: shouldScan is false for a text shorter than 10 or longer than 5000,
\* false when the trimmed text is shorter than 10, false for a text of fewer
\* than 5 distinct characters that is longer than 20, and true otherwise;
\* the empty text, a 1-character text and 22 copies of one character are
\* rejected.
C20_ShouldScan ==
  verdict.done =>
    /\ TooShortOrLong(scanText) => ~verdict.value
    /\ MostlySpace(scanText) => ~verdict.value
    /\ Repetitive(scanText) => ~verdict.value
    /\ (~TooShortOrLong(scanText) /\ ~MostlySpace(scanText) /\ ~Repetitive(scanText))
         => verdict.value
    /\ scanText \in {<<>>, <<97>>, [i \in 1..22 |-> 97]} => ~verdict.value

\* C20 witness: 22 copies of one character were rejected
C20_RepeatedCharRejected ==
  /\ verdict.done /\ ~verdict.value
  /\ scanText = [i \in 1..22 |-> 97]

----------------------------------------------------------------------------
(* Properties of hasSignificantChange                                      *)

\* The edit distance of the suffixes of s from i and of t from j: the least
\* number of insertions, deletions and substitutions turning one into the
\* other.
RECURSIVE EditDistance(_, _, _, _)
EditDistance(s, i, t, j) ==
  IF i > Len(s) THEN Len(t) - j + 1
  ELSE IF j > Len(t) THEN Len(s) - i + 1
  ELSE Min3(EditDistance(s, i + 1, t, j + 1) + (IF s[i] = t[j] THEN 0 ELSE 1),
            EditDistance(s, i, t, j + 1) + 1,
            EditDistance(s, i + 1, t, j) + 1)

\* the length of the longest common prefix of s and t
CommonPrefix(s, t) ==
  CHOOSE k \in 0..Min(Len(s), Len(t)) :
    /\ \A i \in 1..k : s[i] = t[i]
    /\ k < Min(Len(s), Len(t)) => s[k + 1] # t[k + 1]

\* the distance of every edit asked about; a common prefix adds nothing to it
DistanceTable ==
  [e \in ChangeInputs |->
     EditDistance(e[1], CommonPrefix(e[1], e[2]) + 1,
                  e[2], CommonPrefix(e[1], e[2]) + 1)]

Distance == DistanceTable[<<oldText, newText>>]

LengthDelta == Abs(Len(oldText) - Len(newText))

LongerLength == Max(Len(oldText), Len(newText))

\* 1 - Distance / LongerLength < 0.85, both sides multiplied by
\* 100 * LongerLength; with both texts empty the similarity is 1
SimilarityBelowThreshold ==
  LongerLength > 0 /\ 100 * (LongerLength - Distance) < 85 * LongerLength

\* C21: hasSignificantChange(old, new) is true exactly when the length
\* difference exceeds 20 or the similarity 1 - distance/max(len) is below
\* 0.85; appending one character to "hello world" gives false, replacing
\* "hello" by "goodbye universe" gives true.
C21_HasSignificantChange ==
  changed.done =>
    /\ changed.value = (LengthDelta > 20 \/ SimilarityBelowThreshold)
    /\ (oldText = HelloWorld /\ newText = Append(HelloWorld, 33)) => ~changed.value
    /\ (oldText = Hello /\ newText = GoodbyeUniverse) => changed.value

\* C21 witness: an edit that appended exactly 20 characters to a long text
\* was found not significant
C21_TwentyAppendedNotSignificant ==
  /\ changed.done
  /\ ~changed.value
  /\ LengthDelta = 20
  /\ Distance = 20

\* what levenshteinDistance and calculateSimilarity return for every edit
\* asked about
LevenshteinTable == [e \in ChangeInputs |-> LevenshteinDistance(e[1], e[2])]

SimilarityTable == [e \in ChangeInputs |-> CalculateSimilarity(e[1], e[2])]

Similarity == SimilarityTable[<<oldText, newText>>]

\* C33: levenshteinDistance returns the unit-cost edit distance (insert,
\* delete, substitute) of its two strings; the similarity derived from it is
\* 1 - distance / longer length, which is 1 for two empty strings, and lies
\* between 0 and 1.
C33_LevenshteinIsEditDistance ==
  /\ LevenshteinTable[<<oldText, newText>>] = Distance
  /\ Similarity[2] > 0
  /\ 0 <= Similarity[1] /\ Similarity[1] <= Similarity[2]
  /\ LongerLength > 0 =>
       Similarity[1] * LongerLength = (LongerLength - Distance) * Similarity[2]
  /\ LongerLength = 0 => Similarity[1] = Similarity[2]

\* C33 witness: "hello" was compared with "goodbye universe", which takes
\* insertions and substitutions; the distance is the edit distance
C33_SubstitutionsAndInsertions ==
  /\ changed.done
  /\ oldText = Hello /\ newText = GoodbyeUniverse
  /\ Distance > Len(newText) - Len(oldText)
  /\ LevenshteinTable[<<oldText, newText>>] = Distance
  /\ Similarity[1] > 0 /\ Similarity[1] < Similarity[2]

\* C40: hasSignificantChange(a, b) = hasSignificantChange(b, a), and
\* hasSignificantChange(a, a) is false, also for two empty texts.
C40_Symmetric ==
  changed.done =>
    /\ changed.value = ChangeTable[<<newText, oldText>>]
    /\ oldText = newText => ~changed.value

\* C40 witness: a text was compared with one 21 characters shorter and the
\* change was found significant, as it is in the other direction
C40_LongerToShorter ==
  /\ changed.done
  /\ Len(oldText) = Len(newText) + 21
  /\ changed.value
  /\ ChangeTable[<<newText, oldText>>]

----------------------------------------------------------------------------
(* Properties of the pattern matcher                                       *)

\* what the latest detectPii returned, and the results it had collected, in
\* scan order, before it removed the duplicates
Returned == lastScan.scan.unique
Collected == lastScan.scan.results

SameMatch(a, b) == a.type = b.type /\ a.value = b.value

FromCustomRule(r) == "patternName" \in DOMAIN r

\* the place in Collected of the first result that is the same match as r
FirstPlace(r) ==
  CHOOSE i \in 1..Len(Collected) :
    /\ SameMatch(Collected[i], r)
    /\ \A j \in 1..(i - 1) : ~SameMatch(Collected[j], r)

\* C22: the list detectPii returns holds no two matches with the same (type,
\* value); it holds, for every match collected, the first one collected with
\* that (type, value), whatever its position or source rule, and it holds
\* them in scan order.
C22_NoDuplicateMatches ==
  lastScan.done =>
    /\ \A i, j \in 1..Len(Returned) :
         i # j => ~SameMatch(Returned[i], Returned[j])
    /\ \A i \in 1..Len(Collected) :
         \E k \in 1..Len(Returned) : SameMatch(Returned[k], Collected[i])
    /\ \A k \in 1..Len(Returned) :
         /\ \E i \in 1..Len(Collected) : SameMatch(Collected[i], Returned[k])
         /\ Returned[k] = Collected[FirstPlace(Returned[k])]
    /\ \A k, l \in 1..Len(Returned) :
         k < l => FirstPlace(Returned[k]) < FirstPlace(Returned[l])

\* C22 witness: the same value was found twice by a built-in rule, at two
\* offsets, and again by a custom rule of the same type; one match is returned
C22_ThreeCandidatesOneMatch ==
  /\ lastScan.done
  /\ \E i, j, k \in 1..Len(Collected) :
       /\ i < j /\ j < k
       /\ SameMatch(Collected[i], Collected[j])
       /\ SameMatch(Collected[i], Collected[k])
       /\ Collected[i].start # Collected[j].start
       /\ ~FromCustomRule(Collected[i]) /\ ~FromCustomRule(Collected[j])
       /\ FromCustomRule(Collected[k])
       /\ Cardinality({n \in 1..Len(Returned) :
                         SameMatch(Returned[n], Collected[i])}) = 1

\* The Luhn checksum of a digit string: counting from the right, every second
\* digit is doubled and replaced by the sum of the digits of its double; the
\* string passes when the total is a multiple of 10.
RECURSIVE LuhnTotal(_, _)
LuhnTotal(digits, k) ==
  IF k > Len(digits) THEN 0
  ELSE LET d == digits[Len(digits) + 1 - k] - 48
       IN  (IF k % 2 = 0 THEN ((2 * d) \div 10) + ((2 * d) % 10) ELSE d)
             + LuhnTotal(digits, k + 1)

DigitsOf(value) == SelectSeq(value, LAMBDA c : c \in 48..57)

PassesLuhn(value) == LuhnTotal(DigitsOf(value), 1) % 10 = 0

\* 16 digits, alone or in four groups of four with one separator between
CardShaped(text) ==
  \/ Len(text) = 16 /\ \A i \in 1..16 : text[i] \in 48..57
  \/ /\ Len(text) = 19
     /\ \A i \in 1..19 : IF i % 5 = 0 THEN text[i] \in {32, 45}
                                        ELSE text[i] \in 48..57

CreditCards == {k \in 1..Len(Returned) : Returned[k].type = "CREDIT_CARD"}

\* C23: every CREDIT_CARD match of the built-in rule passes the Luhn
\* checksum; and a text that is a 16-digit card-shaped number yields one
\* CREDIT_CARD match when its digits pass the checksum, none when they do not.
C23_ValidatorDecides ==
  lastScan.done =>
    /\ \A k \in CreditCards :
         ~FromCustomRule(Returned[k]) => PassesLuhn(Returned[k].value)
    /\ CardShaped(lastScan.text) =>
         Cardinality(CreditCards) = (IF PassesLuhn(lastScan.text) THEN 1 ELSE 0)

\* C23 witness: a card-shaped number in groups failed the checksum, and the
\* scan, which ran the rules, reports no card
C23_InvalidCardNotReported ==
  /\ lastScan.done
  /\ Len(lastScan.text) = 19
  /\ CardShaped(lastScan.text)
  /\ ~PassesLuhn(lastScan.text)
  /\ lastScan.scan.evaluated # <<>>
  /\ CreditCards = {}

WhitespaceOnly(text) == \A i \in 1..Len(text) : IsSpace(text[i])

\* C24: for an empty and for a whitespace-only text detectPii returns the
\* empty list and evaluates no rule, whatever custom rules are active.
C24_BlankTextRunsNoRule ==
  (lastScan.done /\ WhitespaceOnly(lastScan.text)) =>
    /\ Returned = <<>>
    /\ lastScan.scan.evaluated = <<>>

WellFormed(patterns) ==
  SelectSeq(patterns, LAMBDA p : Compile(p.pattern) # SyntaxError)

\* C25: with a malformed expression among the active custom rules,
\* detectPii raises nothing and returns what it returns without that rule:
\* the matches of the built-in rules and of every other active custom rule.
C25_MalformedRuleIsolated ==
  lastScan.done =>
    /\ ~lastScan.scan.raised
    /\ Returned = DetectPii(lastScan.text, WellFormed(customPatterns)).unique
    /\ Len(lastScan.text) > 0 =>
         lastScan.scan.evaluated =
           [k \in 1..Len(BUILT_IN_PATTERNS) |-> BUILT_IN_PATTERNS[k].type]
             \o [k \in 1..Len(WellFormed(customPatterns)) |->
                   WellFormed(customPatterns)[k].name]

\* C25 witness: the malformed rule comes first among the active ones; a
\* built-in match and a match of a later custom rule are returned
C25_LaterRuleStillMatches ==
  /\ lastScan.done
  /\ Len(customPatterns) > 1
  /\ Compile(customPatterns[1].pattern) = SyntaxError
  /\ \E k \in 1..Len(Returned) : ~FromCustomRule(Returned[k])
  /\ \E k \in 1..Len(Returned) :
       /\ FromCustomRule(Returned[k])
       /\ Returned[k].patternName = customPatterns[2].name

\* the rules of a list whose flag is the number 1, true or the string '1'
FlaggedActive(patterns) ==
  SelectSeq(patterns, LAMBDA p : p.is_active \in {"1", "true", "'1'"})

NamesOf(patterns) == {patterns[k].name : k \in 1..Len(patterns)}

\* C26: after setCustomPatterns(P) the custom rules that scan are exactly
\* the rules of P flagged 1, true or '1': every one of them with a
\* well-formed expression is matched against a scanned text, and no match
\* comes from an inactive rule of P or from a rule of an earlier update.
C26_OnlyActiveRulesScan ==
  /\ customPatterns = FlaggedActive(given)
  /\ (lastScan.done /\ Len(lastScan.text) > 0) =>
       /\ \A k \in 1..Len(Collected) :
            FromCustomRule(Collected[k]) =>
              Collected[k].patternName \in NamesOf(FlaggedActive(given))
       /\ \A n \in NamesOf(WellFormed(FlaggedActive(given))) :
            \E k \in 1..Len(lastScan.scan.evaluated) :
              lastScan.scan.evaluated[k] = n

\* C26 witness: a text with an employee number and a social security number
\* was scanned after an update that lists the employee rule as inactive and
\* the ssn-like rule, active before, not at all; an active rule matched
C26_DroppedAndInactiveRulesSilent ==
  /\ lastScan.done
  /\ "ssn-like" \in earlier
  /\ "ssn-like" \notin NamesOf(given)
  /\ "employee" \in NamesOf(given) \ NamesOf(customPatterns)
  /\ \E k \in 1..Len(Collected) :
       Collected[k].type = "SSN" /\ ~FromCustomRule(Collected[k])
  /\ \E i \in 1..(Len(lastScan.text) - 9) :
       SubSeq(lastScan.text, i, i + 9) = EmployeeText
  /\ \E k \in 1..Len(Returned) : FromCustomRule(Returned[k])
  /\ \A k \in 1..Len(Returned) :
       FromCustomRule(Returned[k]) => Returned[k].patternName = "blank"

\* an offset as text, so that an offset that is undefined can be compared
\* with one that is a number
OffsetText(offset) == ToString(offset)

\* C39: every match detectPii returns with a start offset has an end offset
\* equal to the start plus the length of the matched text, also a match that
\* begins at offset 0.
C39_EndIsStartPlusLength ==
  lastScan.done =>
    \A k \in 1..Len(Returned) :
      OffsetText(Returned[k].end)
        = OffsetText(Returned[k].start + Len(Returned[k].value))

\* the same for the matches that do not begin at offset 0
C39_EndSetAfterOffsetZero ==
  lastScan.done =>
    \A k \in 1..Len(Returned) :
      Returned[k].start # 0 =>
        Returned[k].end = Returned[k].start + Len(Returned[k].value)

----------------------------------------------------------------------------
(* Properties of calculateRiskLevel                                        *)

HighRiskKinds == {"CREDIT_CARD", "SSN", "PRIVATE_KEY", "API_KEY", "AWS_KEY"}

\* a detection of a high-risk kind is present, in whatever case it is spelt
HighRiskPresent ==
  \E i \in 1..Len(detected) :
    detected[i] \in HighRiskKinds \cup {"ssn", "Credit_Card", "api_key"}

\* C27: the risk level is low for no detections; otherwise critical if the
\* average is above 0.9 or a high-risk kind is present; otherwise high if
\* the average is above 0.7 or there are more than 3 detections; otherwise
\* medium if the average is above 0.5 or there is more than 1; otherwise low.
C27_RiskLevel ==
  riskLevel.done =>
    riskLevel.value =
      CASE Len(detected) = 0 -> "low"
        [] Len(detected) > 0 /\ (avgConfidence > 90 \/ HighRiskPresent) -> "critical"
        [] Len(detected) > 0 /\ ~(avgConfidence > 90 \/ HighRiskPresent)
             /\ (avgConfidence > 70 \/ Len(detected) > 3) -> "high"
        [] Len(detected) > 0 /\ ~(avgConfidence > 90 \/ HighRiskPresent)
             /\ ~(avgConfidence > 70 \/ Len(detected) > 3)
             /\ (avgConfidence > 50 \/ Len(detected) > 1) -> "medium"
        [] OTHER -> "low"

\* C27 witness: two detections of no high-risk kind with an average of
\* exactly 0.9 were classified high, not critical
C27_AverageAtThreshold ==
  /\ riskLevel.done
  /\ Len(detected) = 2
  /\ avgConfidence = 90
  /\ ~HighRiskPresent
  /\ riskLevel.value = "high"

----------------------------------------------------------------------------
(* Properties of OnnxPiiDetector                                           *)

\* the _initialize calls whose model load pipeline(...) is in progress
LoadsInProgress == {k \in 1..Len(loads) : loads[k] = "pipeline"}

\* C37: at most one model load is in progress at a time: no initialize call
\* leads to a second one while one is running.
C37_OneLoadAtATime == Cardinality(LoadsInProgress) <= 1

\* C38: from a dispose() until the next call of initialize the detector
\* holds no model.
C38_NoModelAfterDispose == disposed => detector = 0

====
